---- MODULE Spec2Model ----
(***************************************************************************)
(* PDFX-Bench: the normalizer (pdfx_bench/normalize.py), the quality       *)
(* scorer and the comparator (pdfx_bench/scoring.py), the canonical schema *)
(* (pdfx_bench/schema.py), the provenance helpers                          *)
(* (pdfx_bench/provenance.py), the batch driver's per-method extraction    *)
(* (pdfx_bench/cli.py) and the batch run over one PDF of the CLI and of    *)
(* the web front end (web/app.py), as state machines.                      *)
(*                                                                         *)
(* Text is a sequence of characters; a character is one of the tokens of   *)
(* Chars below.  Python floats are modelled by exact reduced fractions     *)
(* [n |-> numerator, d |-> denominator].                                   *)
(***************************************************************************)
EXTENDS Integers, Sequences, FiniteSets, TLC

VARIABLES
    result,             \* scorer: the ExtractionResult handed to score_extraction_result
    score_data,         \* scorer: the dictionary it returned (None before the call)
    results,            \* comparator: the list handed to compare_extraction_results
    comparison,         \* comparator: the dictionary it returned (None before the call)
    adapter_out,        \* extract_with_method: what adapter.extract did
    pc,                 \* extract_with_method: position in the call
    idx,                \* _apply_normalization_rules: index of the next item of the running loop
    normalized_text_blocks,
    normalized_tables,
    normalized_key_values,
    quarantine_entries, \* DataNormalizer.quarantine_entries of the normalizer in use
    raised,             \* extract_with_method: the exception in flight (None when none)
    extraction,         \* extract_with_method: the ExtractionResult returned (None before)
    call,               \* a call of a function of normalize.py or provenance.py: its arguments
    ret,                \* what that call returned or raised (None before)
    frontend,           \* batch: "cli" (process_pdf_file) or "web" (process_pdf_async)
    methods_to_use,     \* batch: the methods requested, in order
    adapter_plan,       \* batch: what each method's adapter will do
    method_idx,         \* batch: number of methods the loop has gone through
    batch_pc,           \* batch: position in the run
    report_path,        \* batch: the comparison report written (None when none)
    quarantine_file,    \* batch: the quarantine file written (None when none)
    discarded_entries,  \* batch: quarantine entries of the normalizers that went out of scope
    scorers,            \* rescoring: the attributes of each QualityScorer object
    score_log,          \* rescoring: the calls of score_extraction_result so far, with what each returned
    web_session,        \* web: processing_status[session_id] (absent before the first write)
    web_pc,             \* web: position of the thread running process_pdf_async
    upload_pc,          \* web: position of the /upload handler
    web_methods,        \* web: the methods of the request
    web_plan,           \* web: what create_adapter and extract do for each method
    web_fault,          \* web: the step of process_pdf_async that raises ("none" when none)
    web_i,              \* web: index i of the loop over the methods
    web_results,        \* web: the local dict results of process_pdf_async
    status_reply        \* web: what the last /status request returned (None before)

vars == <<result, score_data, results, comparison, adapter_out, pc, idx,
          normalized_text_blocks, normalized_tables, normalized_key_values,
          quarantine_entries, raised, extraction, call, ret,
          frontend, methods_to_use, adapter_plan, method_idx, batch_pc,
          report_path, quarantine_file, discarded_entries,
          scorers, score_log,
          web_session, web_pc, upload_pc, web_methods, web_plan, web_fault, web_i, web_results, status_reply>>

call_vars == <<call, ret>>
batch_vars == <<frontend, methods_to_use, adapter_plan, method_idx, batch_pc,
                report_path, quarantine_file, discarded_entries>>
web_vars == <<web_session, web_pc, upload_pc, web_methods, web_plan, web_fault, web_i, web_results, status_reply>>
scorer_vars == <<scorers, score_log>>

-----------------------------------------------------------------------------
(* Exact arithmetic on fractions.                                          *)

RECURSIVE GCD(_, _)
GCD(a, b) == IF b = 0 THEN a ELSE GCD(b, a % b)

Abs(x) == IF x < 0 THEN -x ELSE x

Frac(n, d) ==
    LET g == GCD(Abs(n), Abs(d))
        s == IF d < 0 THEN -1 ELSE 1
    IN  [n |-> (s * n) \div g, d |-> (s * d) \div g]

FAdd(x, y) == Frac(x.n * y.d + y.n * x.d, x.d * y.d)
FSub(x, y) == Frac(x.n * y.d - y.n * x.d, x.d * y.d)
FMul(x, y) == Frac(x.n * y.n, x.d * y.d)
FDiv(x, y) == Frac(x.n * y.d, x.d * y.n)
FLess(x, y) ==
    LET l == (x.d * y.d) \div GCD(x.d, y.d)
    IN  x.n * (l \div x.d) < y.n * (l \div y.d)
FLeq(x, y) == x = y \/ FLess(x, y)

Zero == Frac(0, 1)
One == Frac(1, 1)
Max(a, b) == IF a >= b THEN a ELSE b

RECURSIVE FSum(_)
FSum(s) == IF s = <<>> THEN Zero ELSE FAdd(Head(s), FSum(Tail(s)))

RECURSIVE Flatten(_)
Flatten(ss) == IF ss = <<>> THEN <<>> ELSE Head(ss) \o Flatten(Tail(ss))

RECURSIVE SelectSeqOf(_, _)
SelectSeqOf(s, keep) ==
    IF s = <<>> THEN <<>>
    ELSE (IF Head(s) \in keep THEN <<Head(s)>> ELSE <<>>) \o SelectSeqOf(Tail(s), keep)

Range(s) == {s[i] : i \in 1..Len(s)}

-----------------------------------------------------------------------------
(* Characters and the str methods the code uses.                           *)

DigitChars == {"1", "2"}
LowerChars == {"a", "n"}
UpperChars == {"A"}
\* The space and the newline: whitespace to split() and strip().
SpaceChars == {"sp", "nl"}
CtlChars == {"ctl"}
Chars == DigitChars \cup LowerChars \cup UpperChars \cup SpaceChars \cup CtlChars

\* A value that is no str (an int, say) where a str is expected.
NotAStr == <<"NotAStr">>

isalpha(c) == c \in LowerChars \cup UpperChars
isspace(c) == c \in SpaceChars

lower_char(c) == IF c = "A" THEN "a" ELSE c
lower(text) == [i \in 1..Len(text) |-> lower_char(text[i])]

RECURSIVE lstrip(_)
lstrip(text) ==
    IF text # <<>> /\ isspace(Head(text)) THEN lstrip(Tail(text)) ELSE text

RECURSIVE rstrip(_)
rstrip(text) ==
    IF text # <<>> /\ isspace(text[Len(text)])
    THEN rstrip(SubSeq(text, 1, Len(text) - 1))
    ELSE text

strip(text) == rstrip(lstrip(text))

\* str.split() with no separator: the maximal runs of non-whitespace.
RECURSIVE split_acc(_, _, _)
split_acc(text, word, words) ==
    IF text = <<>>
    THEN (IF word = <<>> THEN words ELSE Append(words, word))
    ELSE IF isspace(Head(text))
         THEN split_acc(Tail(text), <<>>,
                        IF word = <<>> THEN words ELSE Append(words, word))
         ELSE split_acc(Tail(text), Append(word, Head(text)), words)

split(text) == split_acc(text, <<>>, <<>>)

\* " ".join(words)
RECURSIVE join(_)
join(words) ==
    IF words = <<>> THEN <<>>
    ELSE IF Len(words) = 1 THEN Head(words)
    ELSE Head(words) \o <<"sp">> \o join(Tail(words))

-----------------------------------------------------------------------------
(* Python values.  Every object is a record; None is the record NoneVal,   *)
(* so that an Optional field compares with None.  An exception that a call *)
(* raises is the record Exc(type, message) returned in place of a value.   *)

NoneVal == [none |-> TRUE]
Exc(type, msg) == [exc |-> type, msg |-> msg]
IsExc(x) == "exc" \in DOMAIN x

\* A str held by a field that may also hold None (table_id, error_message).
Str(s) == [str |-> s]

\* A parsed_number argument that the caller did not pass.
Unset == [unset |-> TRUE]

-----------------------------------------------------------------------------
(* schema.py                                                               *)

Provenance(page, confidence) == [page |-> page, confidence |-> confidence]

has_digit(text) == \E i \in 1..Len(text) : text[i] \in DigitChars

digit_value(c) == IF c = "1" THEN 1 ELSE 2

\* The digits the number pattern matches: the first run of digits, cut after
\* three of them by the \d{1,3} alternative.
RECURSIVE first_digit_run(_, _)
first_digit_run(text, run) ==
    IF text = <<>> \/ Len(run) = 3 THEN run
    ELSE IF Head(text) \in DigitChars
         THEN first_digit_run(Tail(text), Append(run, Head(text)))
         ELSE IF run = <<>> THEN first_digit_run(Tail(text), run) ELSE run

RECURSIVE int_of(_)
int_of(digits) ==
    IF digits = <<>> THEN 0
    ELSE 10 * int_of(SubSeq(digits, 1, Len(digits) - 1)) + digit_value(digits[Len(digits)])

\* TableCell.parse_number: a pre-validator, run only when parsed_number is passed.
parse_number(v, raw_text) ==
    IF v = Unset THEN NoneVal
    ELSE IF v # NoneVal THEN v
    ELSE IF raw_text = <<>> THEN NoneVal
    ELSE IF has_digit(raw_text)
         THEN [value |-> int_of(first_digit_run(raw_text, <<>>))]
         ELSE NoneVal

TableCell(raw_text, row_idx, col_idx, is_header, provenance, parsed_number) ==
    IF provenance = NoneVal
    THEN Exc("ValidationError", "provenance: none is not an allowed value")
    ELSE IF row_idx < 0 \/ col_idx < 0
    THEN Exc("ValidationError", "ensure this value is greater than or equal to 0")
    ELSE [raw_text |-> raw_text, row_idx |-> row_idx, col_idx |-> col_idx,
          is_header |-> is_header, provenance |-> provenance,
          parsed_number |-> parse_number(parsed_number, raw_text)]

TextBlock(text, provenance) ==
    IF strip(text) = <<>>
    THEN Exc("ValidationError", "Text content cannot be empty")
    ELSE IF provenance = NoneVal
    THEN Exc("ValidationError", "provenance: none is not an allowed value")
    ELSE [text |-> text, provenance |-> provenance]

KeyValue(key, value, provenance) ==
    IF strip(key) = <<>>
    THEN Exc("ValidationError", "Key cannot be empty")
    ELSE IF provenance = NoneVal
    THEN Exc("ValidationError", "provenance: none is not an allowed value")
    ELSE [key |-> key, value |-> value, provenance |-> provenance]

Table(cells, table_id, provenance) ==
    IF table_id = NoneVal
    THEN Exc("ValidationError", "table_id: none is not an allowed value")
    ELSE IF provenance = NoneVal
    THEN Exc("ValidationError", "provenance: none is not an allowed value")
    ELSE [cells |-> cells, table_id |-> table_id, provenance |-> provenance]

RECURSIVE MaxOf(_, _)
MaxOf(s, default) ==
    IF s = <<>> THEN default ELSE Max(Head(s), MaxOf(Tail(s), default))

\* Table.rows and Table.cols
rows(table) == MaxOf([i \in 1..Len(table.cells) |-> table.cells[i].row_idx], -1) + 1
cols(table) == MaxOf([i \in 1..Len(table.cells) |-> table.cells[i].col_idx], -1) + 1

Document(id, file_name, page_count, text_blocks, tables, key_values, extraction_metadata) ==
    [id |-> id, file_name |-> file_name, page_count |-> page_count,
     text_blocks |-> text_blocks, tables |-> tables, key_values |-> key_values,
     extraction_metadata |-> extraction_metadata]

ExtractionResult(document, method, success, error_message, total_text_blocks, total_tables, total_cells, empty_cells, avg_confidence) ==
    [document |-> document, method |-> method, success |-> success,
     error_message |-> error_message, total_text_blocks |-> total_text_blocks,
     total_tables |-> total_tables, total_cells |-> total_cells,
     empty_cells |-> empty_cells, avg_confidence |-> avg_confidence]

\* The members of ExtractionMethod the model runs.
ExtractionMethod == {"pdfplumber", "camelot-lattice", "tabula"}

-----------------------------------------------------------------------------
(* scoring.py: QualityScorer                                               *)

\* re.sub(r'[\$...,\s%]', '', text.strip()): of the model's characters the
\* pattern removes the whitespace.
RECURSIVE remove_spaces(_)
remove_spaces(text) ==
    IF text = <<>> THEN <<>>
    ELSE (IF isspace(Head(text)) THEN <<>> ELSE <<Head(text)>>) \o remove_spaces(Tail(text))

\* float(cleaned) succeeds: over the model's characters, on a run of digits
\* and on "nan" in any case.
float_parses(cleaned) ==
    \/ cleaned # <<>> /\ \A i \in 1..Len(cleaned) : cleaned[i] \in DigitChars
    \/ lower(cleaned) = <<"n", "a", "n">>

is_numeric_text(text) ==
    IF strip(text) = <<>> THEN FALSE
    ELSE float_parses(remove_spaces(strip(text)))

Count(s, P(_)) == Cardinality({i \in 1..Len(s) : P(s[i])})

\* is_readable_text with the length test off by one (<= 3 for < 3).
is_readable_text_len3(text) ==
    IF text = <<>> \/ Len(strip(text)) <= 3 THEN FALSE
    ELSE FLeq(Frac(1, 2), Frac(Count(text, isalpha), Len(text)))

is_readable_text(text) ==
    IF text = <<>> \/ Len(strip(text)) < 3 THEN FALSE
    ELSE LET letters == Count(text, isalpha)
             total_chars == Len(text)
         IN  FLeq(Frac(1, 2), Frac(letters, total_chars))

calculate_basic_metrics(r) ==
    [success |-> r.success,
     total_text_blocks |-> r.total_text_blocks,
     total_tables |-> r.total_tables,
     total_cells |-> r.total_cells,
     empty_cells |-> r.empty_cells,
     empty_cell_rate |-> IF r.total_cells > 0
                         THEN Frac(r.empty_cells, Max(r.total_cells, 1))
                         ELSE Zero,
     avg_confidence |-> r.avg_confidence]

calculate_table_metrics(tables) ==
    IF tables = <<>>
    THEN [table_count |-> 0, avg_rows_per_table |-> Zero, avg_cols_per_table |-> Zero,
          header_detection_rate |-> Zero, numeric_cell_parse_rate |-> Zero,
          duplicate_cell_rate |-> Zero, table_completeness_score |-> Zero,
          empty_cell_rate |-> Zero]
    ELSE
    LET cells == Flatten([t \in 1..Len(tables) |-> tables[t].cells])
        total_rows == FSum([t \in 1..Len(tables) |-> Frac(rows(tables[t]), 1)])
        total_cols == FSum([t \in 1..Len(tables) |-> Frac(cols(tables[t]), 1)])
        total_cells == Len(cells)
        all_cell_texts == [i \in 1..Len(cells) |-> lower(strip(cells[i].raw_text))]
        IsHeader(c) == c.is_header
        LooksNumeric(c) == is_numeric_text(c.raw_text)
        ParsedNumeric(c) == is_numeric_text(c.raw_text) /\ c.parsed_number # NoneVal
        NonEmpty(text) == text # <<>>
        header_cells == Count(cells, IsHeader)
        numeric_cells == Count(cells, LooksNumeric)
        parsed_numeric_cells == Count(cells, ParsedNumeric)
        unique_texts == Range(all_cell_texts)
        duplicate_rate ==
            FSub(One, Frac(Cardinality(unique_texts), Max(Len(all_cell_texts), 1)))
        non_empty_cells == Count(all_cell_texts, NonEmpty)
        completeness_score == Frac(non_empty_cells, Max(total_cells, 1))
    IN  [table_count |-> Len(tables),
         avg_rows_per_table |-> FDiv(total_rows, Frac(Len(tables), 1)),
         avg_cols_per_table |-> FDiv(total_cols, Frac(Len(tables), 1)),
         header_detection_rate |-> Frac(header_cells, Max(total_cells, 1)),
         numeric_cell_parse_rate |-> Frac(parsed_numeric_cells, Max(numeric_cells, 1)),
         duplicate_cell_rate |-> duplicate_rate,
         table_completeness_score |-> completeness_score,
         empty_cell_rate |-> FSub(One, completeness_score)]

calculate_text_metrics(text_blocks) ==
    IF text_blocks = <<>>
    THEN [text_block_count |-> 0, avg_text_length |-> Zero, total_characters |-> 0,
          readable_text_rate |-> Zero]
    ELSE
    LET total_chars ==
            FSum([i \in 1..Len(text_blocks) |-> Frac(Len(text_blocks[i].text), 1)]).n
        Readable(b) == is_readable_text(b.text)
        readable_blocks == Count(text_blocks, Readable)
    IN  [text_block_count |-> Len(text_blocks),
         avg_text_length |-> Frac(total_chars, Len(text_blocks)),
         total_characters |-> total_chars,
         readable_text_rate |-> Frac(readable_blocks, Len(text_blocks))]

\* The confidences of a document in the order the code collects them: each
\* table's, then its cells', then the text blocks', then the key-values'.
\* The confidences of the cells, text blocks and key-values, without those
\* of the tables.
collect_confidences_without_tables(document) ==
    LET OfTable(t) == [i \in 1..Len(t.cells) |-> t.cells[i].provenance.confidence]
        all == Flatten([t \in 1..Len(document.tables) |-> OfTable(document.tables[t])])
               \o [i \in 1..Len(document.text_blocks) |->
                        document.text_blocks[i].provenance.confidence]
               \o [i \in 1..Len(document.key_values) |->
                        document.key_values[i].provenance.confidence]
    IN  SelectSeqOf(all, Range(all) \ {NoneVal})

collect_confidences(document) ==
    LET OfTable(t) == <<t.provenance.confidence>>
                      \o [i \in 1..Len(t.cells) |-> t.cells[i].provenance.confidence]
        all == Flatten([t \in 1..Len(document.tables) |-> OfTable(document.tables[t])])
               \o [i \in 1..Len(document.text_blocks) |->
                        document.text_blocks[i].provenance.confidence]
               \o [i \in 1..Len(document.key_values) |->
                        document.key_values[i].provenance.confidence]
    IN  SelectSeqOf(all, Range(all) \ {NoneVal})

RECURSIVE FMin(_)
FMin(s) == IF Len(s) = 1 THEN Head(s)
           ELSE LET m == FMin(Tail(s)) IN IF FLess(Head(s), m) THEN Head(s) ELSE m

RECURSIVE FMax(_)
FMax(s) == IF Len(s) = 1 THEN Head(s)
           ELSE LET m == FMax(Tail(s)) IN IF FLess(m, Head(s)) THEN Head(s) ELSE m

\* calculate_confidence_metrics with the average left as the sum.
calculate_confidence_metrics_sum(r) ==
    LET confidences == collect_confidences(r.document)
        Low(c) == FLess(c, Frac(8, 10))
    IN  IF confidences = <<>>
        THEN [has_confidence_scores |-> FALSE, avg_confidence |-> NoneVal,
              min_confidence |-> NoneVal, max_confidence |-> NoneVal,
              low_confidence_rate |-> Zero]
        ELSE [has_confidence_scores |-> TRUE,
              avg_confidence |-> FSum(confidences),
              min_confidence |-> FMin(confidences),
              max_confidence |-> FMax(confidences),
              low_confidence_rate |-> Frac(Count(confidences, Low), Len(confidences))]

calculate_confidence_metrics(r) ==
    LET confidences == collect_confidences(r.document)
        Low(c) == FLess(c, Frac(8, 10))
    IN  IF confidences = <<>>
        THEN [has_confidence_scores |-> FALSE, avg_confidence |-> NoneVal,
              min_confidence |-> NoneVal, max_confidence |-> NoneVal,
              low_confidence_rate |-> Zero]
        ELSE [has_confidence_scores |-> TRUE,
              avg_confidence |-> FDiv(FSum(confidences), Frac(Len(confidences), 1)),
              min_confidence |-> FMin(confidences),
              max_confidence |-> FMax(confidences),
              low_confidence_rate |-> Frac(Count(confidences, Low), Len(confidences))]

\* numeric_cells[(row, col)] of _validate_table_sums: the parsed number of the
\* last cell reported at the position, NoneVal when no such cell has one.
numeric_cell_at(table, row, col) ==
    LET at == {i \in 1..Len(table.cells) :
                  /\ table.cells[i].row_idx = row
                  /\ table.cells[i].col_idx = col
                  /\ table.cells[i].parsed_number # NoneVal}
    IN  IF at = {} THEN NoneVal
        ELSE table.cells[CHOOSE i \in at : \A j \in at : j <= i].parsed_number

RECURSIVE column_sum(_, _, _)
column_sum(table, col, last_row) ==
    IF last_row = 0 THEN 0
    ELSE LET v == numeric_cell_at(table, last_row - 1, col)
         IN  (IF v = NoneVal THEN 0 ELSE v.value) + column_sum(table, col, last_row - 1)

validate_table_sums(tables) ==
    \E t \in 1..Len(tables) :
        /\ ~(rows(tables[t]) < 3 \/ cols(tables[t]) < 3)
        /\ \E col \in 0..(cols(tables[t]) - 1) :
              LET last_row == rows(tables[t]) - 1
                  last == numeric_cell_at(tables[t], last_row, col)
              IN  /\ last # NoneVal
                  /\ FLess(Frac(Abs(column_sum(tables[t], col, last_row) - last.value),
                                Max(Abs(last.value), 1)),
                           Frac(1, 10))

calculate_cross_validation_metrics(document) ==
    LET cells == Flatten([t \in 1..Len(document.tables) |-> document.tables[t].cells])
        HasNumber(c) == c.parsed_number # NoneVal
        \* currency_pattern.search: a digit anywhere; no date pattern matches a
        \* text of the model's characters.
        IsCurrency(c) == has_digit(strip(c.raw_text))
        Reasonable(c) == c.parsed_number # NoneVal /\ Abs(c.parsed_number.value) <= 1000000000
        numeric_values == Count(cells, HasNumber)
        currency_values == Count(cells, IsCurrency)
    IN  [numeric_consistency_score |->
             IF numeric_values > 0 THEN Frac(Count(cells, Reasonable), numeric_values)
             ELSE Zero,
         date_format_consistency |-> Zero,
         currency_format_consistency |-> IF currency_values > 0 THEN One ELSE Zero,
         table_sum_validation |-> validate_table_sums(document.tables)]

\* `x or 0.5`: the right operand when x is None or 0.0.
or_default(x, default) == IF x = NoneVal \/ x = Zero THEN default ELSE x

\* The weighted sum _calculate_overall_score accumulates, with the weights
\* wt (tables), wx (text) and wc (confidence) as its denominator's terms.
overall_score_with(basic, table, text, confidence, wt, wx, wc) ==
    LET table_score ==
            FSum(<<FMul(FSub(One, table.empty_cell_rate), Frac(3, 10)),
                   FMul(table.numeric_cell_parse_rate, Frac(2, 10)),
                   FMul(table.table_completeness_score, Frac(3, 10)),
                   FMul(FSub(One, table.duplicate_cell_rate), Frac(2, 10))>>)
        score ==
            FSum(<<IF basic.success THEN Frac(3, 10) ELSE Zero,
                   IF table.table_count > 0 THEN FMul(table_score, Frac(4, 10)) ELSE Zero,
                   IF text.text_block_count > 0
                   THEN FMul(text.readable_text_rate, Frac(2, 10)) ELSE Zero,
                   IF confidence.has_confidence_scores
                   THEN FMul(or_default(confidence.avg_confidence, Frac(1, 2)), Frac(1, 10))
                   ELSE Zero>>)
    IN  FDiv(score, FSum(<<Frac(3, 10), wt, wx, wc>>))

\* _calculate_overall_score with every `weight_sum +=` under its `if`.
calculate_overall_score_renormalized(basic, table, text, cross_val, confidence) ==
    overall_score_with(basic, table, text, confidence,
        IF table.table_count > 0 THEN Frac(4, 10) ELSE Zero,
        IF text.text_block_count > 0 THEN Frac(2, 10) ELSE Zero,
        IF confidence.has_confidence_scores THEN Frac(1, 10) ELSE Zero)

\* _calculate_overall_score with the tables' `weight_sum += 0.4` under its `if`.
calculate_overall_score_table_weight(basic, table, text, cross_val, confidence) ==
    overall_score_with(basic, table, text, confidence,
        IF table.table_count > 0 THEN Frac(4, 10) ELSE Zero, Frac(2, 10), Frac(1, 10))

calculate_overall_score(basic, table, text, cross_val, confidence) ==
    LET score0 == IF basic.success THEN Frac(3, 10) ELSE Zero
        weight0 == Frac(3, 10)
        table_score ==
            FSum(<<FMul(FSub(One, table.empty_cell_rate), Frac(3, 10)),
                   FMul(table.numeric_cell_parse_rate, Frac(2, 10)),
                   FMul(table.table_completeness_score, Frac(3, 10)),
                   FMul(FSub(One, table.duplicate_cell_rate), Frac(2, 10))>>)
        score1 == IF table.table_count > 0
                  THEN FAdd(score0, FMul(table_score, Frac(4, 10)))
                  ELSE score0
        weight1 == FAdd(weight0, Frac(4, 10))
        score2 == IF text.text_block_count > 0
                  THEN FAdd(score1, FMul(text.readable_text_rate, Frac(2, 10)))
                  ELSE score1
        weight2 == FAdd(weight1, Frac(2, 10))
        score3 == IF confidence.has_confidence_scores
                  THEN FAdd(score2, FMul(or_default(confidence.avg_confidence, Frac(1, 2)),
                                         Frac(1, 10)))
                  ELSE score2
        weight_sum == FAdd(weight2, Frac(1, 10))
    IN  IF FLess(Zero, weight_sum) THEN FDiv(score3, weight_sum) ELSE Zero

score_extraction_result(r) ==
    LET basic_metrics == calculate_basic_metrics(r)
        table_metrics == calculate_table_metrics(r.document.tables)
        text_metrics == calculate_text_metrics(r.document.text_blocks)
        cross_validation == calculate_cross_validation_metrics(r.document)
        confidence_metrics == calculate_confidence_metrics(r)
    IN  [method |-> r.method,
         overall_score |-> calculate_overall_score(basic_metrics, table_metrics,
                               text_metrics, cross_validation, confidence_metrics),
         basic_metrics |-> basic_metrics,
         table_metrics |-> table_metrics,
         text_metrics |-> text_metrics,
         cross_validation |-> cross_validation,
         confidence_metrics |-> confidence_metrics]

-----------------------------------------------------------------------------
(* normalize.py: DataNormalizer                                            *)
(*                                                                         *)
(* A helper returns an outcome: the value it returned (NoneVal for None),  *)
(* the quarantine entries it appended, and the exception that left it      *)
(* (NoneVal when it returned).                                             *)

Outcome(value, entries, exception) ==
    [value |-> value, entries |-> entries, raised |-> exception]

RECURSIVE remove_control(_)
remove_control(text) ==
    IF text = <<>> THEN <<>>
    ELSE (IF Head(text) \in CtlChars THEN <<>> ELSE <<Head(text)>>)
         \o remove_control(Tail(text))

\* _clean_text on a str.
clean_text(text) ==
    IF text = <<>> THEN <<>>
    ELSE strip(remove_control(join(split(text))))

\* text.split() on a value that is no str.
NoSplit == Exc("AttributeError", "object has no attribute 'split'")

\* _quarantine_data: data.get('provenance', {}).get('page', 1) raises when the
\* item's provenance is None.  The entry's timestamp (the clock) is left out.
quarantine_data(data, method, reason) ==
    IF data.provenance = NoneVal
    THEN Outcome(NoneVal, <<>>,
                 Exc("AttributeError", "'NoneType' object has no attribute 'get'"))
    ELSE Outcome(NoneVal,
                 <<[original_data |-> data, method |-> method,
                    failure_reason |-> reason, page |-> data.provenance.page]>>,
                 NoneVal)

\* The try block of _normalize_text_block without its test of emptiness: the
\* validator of TextBlock raises on the empty text.
convert_text_block_unchecked(text_block) ==
    IF text_block.text = NotAStr THEN NoSplit
    ELSE TextBlock(clean_text(text_block.text), text_block.provenance)

\* The try block of _normalize_text_block: the block, NoneVal, or the exception.
convert_text_block(text_block) ==
    IF text_block.text = NotAStr THEN NoSplit
    ELSE LET normalized_text == clean_text(text_block.text)
         IN  IF strip(normalized_text) = <<>> THEN NoneVal
             ELSE TextBlock(normalized_text, text_block.provenance)

normalize_text_block(text_block, method) ==
    LET r == convert_text_block(text_block)
    IN  IF IsExc(r) THEN quarantine_data(text_block, method, r.msg)
        ELSE Outcome(r, <<>>, NoneVal)

\* The try block of _normalize_table_cell.
convert_table_cell(cell) ==
    IF cell.raw_text = NotAStr THEN NoSplit
    ELSE TableCell(clean_text(cell.raw_text), cell.row_idx, cell.col_idx,
                   cell.is_header, cell.provenance, cell.parsed_number)

normalize_table_cell(cell, method) ==
    LET r == convert_table_cell(cell)
    IN  IF IsExc(r) THEN Outcome(NoneVal, <<>>, NoneVal)
        ELSE Outcome(r, <<>>, NoneVal)

\* _validate_table_structure with the threshold inclusive (<= for <).
validate_table_structure_inclusive(cells) ==
    IF cells = <<>> THEN FALSE
    ELSE LET max_row == MaxOf([i \in 1..Len(cells) |-> cells[i].row_idx], 0)
             max_col == MaxOf([i \in 1..Len(cells) |-> cells[i].col_idx], 0)
             expected_cells == (max_row + 1) * (max_col + 1)
             actual_cells == Len(cells)
         IN  ~ FLeq(Frac(actual_cells, 1), FMul(Frac(expected_cells, 1), Frac(1, 2)))

validate_table_structure(cells) ==
    IF cells = <<>> THEN FALSE
    ELSE LET max_row == MaxOf([i \in 1..Len(cells) |-> cells[i].row_idx], 0)
             max_col == MaxOf([i \in 1..Len(cells) |-> cells[i].col_idx], 0)
             expected_cells == (max_row + 1) * (max_col + 1)
             actual_cells == Len(cells)
         IN  ~ FLess(Frac(actual_cells, 1), FMul(Frac(expected_cells, 1), Frac(1, 2)))

RECURSIVE normalize_cells(_, _)
normalize_cells(cells, method) ==
    IF cells = <<>> THEN <<>>
    ELSE LET o == normalize_table_cell(Head(cells), method)
         IN  (IF o.value # NoneVal THEN <<o.value>> ELSE <<>>)
             \o normalize_cells(Tail(cells), method)

\* _normalize_table dropping a sparse table without a quarantine entry.
normalize_table_silent_reject(table, method) ==
    LET normalized_cells == normalize_cells(table.cells, method)
        Handler(e) == quarantine_data(table, method, e.msg)
    IN  IF normalized_cells = <<>> THEN Outcome(NoneVal, <<>>, NoneVal)
        ELSE IF ~ validate_table_structure(normalized_cells)
        THEN Outcome(NoneVal, <<>>, NoneVal)
        ELSE LET t == Table(normalized_cells, table.table_id, table.provenance)
             IN  IF IsExc(t) THEN Handler(t) ELSE Outcome(t, <<>>, NoneVal)

normalize_table(table, method) ==
    LET normalized_cells == normalize_cells(table.cells, method)
        \* the except clause of _normalize_table
        Handler(e) == quarantine_data(table, method, e.msg)
    IN  IF normalized_cells = <<>> THEN Outcome(NoneVal, <<>>, NoneVal)
        ELSE IF ~ validate_table_structure(normalized_cells)
        THEN LET q == quarantine_data(table, method, "Invalid table structure")
             IN  IF q.raised # NoneVal THEN Handler(q.raised) ELSE q
        ELSE LET t == Table(normalized_cells, table.table_id, table.provenance)
             IN  IF IsExc(t) THEN Handler(t) ELSE Outcome(t, <<>>, NoneVal)

\* The try block of _normalize_key_value.
convert_key_value(kv) ==
    IF kv.key = NotAStr \/ kv.value = NotAStr THEN NoSplit
    ELSE LET normalized_key == clean_text(kv.key)
             normalized_value == clean_text(kv.value)
         IN  IF strip(normalized_key) = <<>> THEN NoneVal
             ELSE KeyValue(normalized_key, normalized_value, kv.provenance)

normalize_key_value(kv, method) ==
    LET r == convert_key_value(kv)
    IN  IF IsExc(r) THEN quarantine_data(kv, method, r.msg)
        ELSE Outcome(r, <<>>, NoneVal)

\* normalize_extraction_result from "Calculate quality metrics" on: the counts
\* and the average confidence of the document, and the result.
build_result(document, method, success, error_message) ==
    LET cells == Flatten([t \in 1..Len(document.tables) |-> document.tables[t].cells])
        Blank(c) == strip(c.raw_text) = <<>>
        confidences == collect_confidences(document)
    IN  ExtractionResult(document, method, success, error_message,
            Len(document.text_blocks), Len(document.tables), Len(cells),
            Count(cells, Blank),
            IF confidences # <<>>
            THEN FDiv(FSum(confidences), Frac(Len(confidences), 1))
            ELSE NoneVal)

\* The document normalize_extraction_result makes for a failed extraction.
UnknownDocument == Document("unknown", "unknown", 1, <<>>, <<>>, <<>>, [error |-> NoneVal])

-----------------------------------------------------------------------------
(* scoring.py: compare_extraction_results                                  *)

\* The dictionary {} returned for no results.
EmptyDict == [empty_dict |-> TRUE]

score_each(rs) ==
    <<>> \o [i \in 1..Len(rs) |->
        [method |-> rs[i].method, scores |-> score_extraction_result(rs[i]),
         result |-> rs[i]]]

\* Insert x behind every element whose score is at least x's.
RECURSIVE insert_stable(_, _)
insert_stable(sorted, x) ==
    IF sorted = <<>> THEN <<x>>
    ELSE IF FLess(Head(sorted).scores.overall_score, x.scores.overall_score)
         THEN <<x>> \o sorted
         ELSE <<Head(sorted)>> \o insert_stable(Tail(sorted), x)

\* Insert x in front of every element whose score is at most x's.
RECURSIVE insert_before_ties(_, _)
insert_before_ties(sorted, x) ==
    IF sorted = <<>> THEN <<x>>
    ELSE IF FLeq(Head(sorted).scores.overall_score, x.scores.overall_score)
         THEN <<x>> \o sorted
         ELSE <<Head(sorted)>> \o insert_before_ties(Tail(sorted), x)

\* An ascending sort reversed: descending, with equal scores in reverse input order.
RECURSIVE sort_by_score_ties_reversed(_)
sort_by_score_ties_reversed(scored) ==
    IF scored = <<>> THEN <<>>
    ELSE insert_before_ties(
             sort_by_score_ties_reversed(SubSeq(scored, 1, Len(scored) - 1)),
             scored[Len(scored)])

\* list.sort(key=overall_score, reverse=True): descending and stable.
RECURSIVE sort_by_score(_)
sort_by_score(scored) ==
    IF scored = <<>> THEN <<>>
    ELSE insert_stable(sort_by_score(SubSeq(scored, 1, Len(scored) - 1)),
                       scored[Len(scored)])

table_count_of(sr) == sr.scores.table_metrics.table_count
text_block_count_of(sr) == sr.scores.text_metrics.text_block_count

\* The index of the last of the greatest keys.
max_index_last(keys) ==
    LET best == {i \in 1..Len(keys) : \A j \in 1..Len(keys) : keys[j] <= keys[i]}
    IN  CHOOSE i \in best : \A j \in best : j <= i

\* max(s, key=...): the index of the first of the greatest keys.
max_index(keys) ==
    LET best == {i \in 1..Len(keys) : \A j \in 1..Len(keys) : keys[j] <= keys[i]}
    IN  CHOOSE i \in best : \A j \in best : i <= j

\* The dict comprehension keyed by method: a later entry replaces an earlier one.
detailed_scores_of(scored) ==
    [m \in {scored[i].method : i \in 1..Len(scored)} |->
        scored[CHOOSE i \in 1..Len(scored) :
                  /\ scored[i].method = m
                  /\ \A j \in 1..Len(scored) : scored[j].method = m => j <= i].scores]

compare_extraction_results(rs) ==
    IF rs = <<>> THEN EmptyDict
    ELSE LET scored_results == sort_by_score(score_each(rs))
         IN  [total_methods |-> Len(rs),
              best_overall |-> scored_results[1].method,
              best_tables |->
                  scored_results[max_index([i \in 1..Len(scored_results) |->
                      table_count_of(scored_results[i])])].method,
              best_text |->
                  scored_results[max_index([i \in 1..Len(scored_results) |->
                      text_block_count_of(scored_results[i])])].method,
              method_rankings |->
                  [i \in 1..Len(scored_results) |-> scored_results[i].method],
              detailed_scores |-> detailed_scores_of(scored_results)]

-----------------------------------------------------------------------------
(* The documents the scorer is run on.                                     *)

MaxItems == 3

\* Sequences over S of length n.
SeqsOfLen(S, n) == [1..n -> S]

ScoreCellTexts == {<<>>, <<"1">>, <<"a">>, <<"n", "a", "n">>}
ScoreBlockTexts == {<<"a", "n", "a">>, <<"a", "1", "a", "2">>, <<"1", "2", "a">>}
ItemConfidences == {NoneVal, Frac(0, 100), Frac(95, 100)}
TableConfidences == {NoneVal, Frac(95, 100)}

\* A one-row table as the adapters build it: cell i in column i-1, the first
\* row marked as header.
ScoreTable(texts, conf, table_conf) ==
    Table([i \in 1..Len(texts) |->
               TableCell(texts[i], 0, i - 1, TRUE, Provenance(1, conf), NoneVal)],
          Str("table_1"), Provenance(1, table_conf))

ScoreDocument(has_table, cell_texts, table_conf, block_texts, kvs, conf) ==
    Document("doc", "doc.pdf", 1,
        [i \in 1..Len(block_texts) |-> TextBlock(block_texts[i], Provenance(1, conf))],
        IF has_table THEN <<ScoreTable(cell_texts, conf, table_conf)>> ELSE <<>>,
        [i \in 1..kvs |-> KeyValue(<<"a">>, <<"1">>, Provenance(1, conf))],
        [error |-> NoneVal])

\* Every document of at most MaxItems items (cells, text blocks, key-values),
\* with or without a table.
GeneratedDocuments ==
    UNION {
        {ScoreDocument(ht, ct, tc, bt, n[3], c) :
            ht \in (IF n[1] = 0 THEN BOOLEAN ELSE {TRUE}),
            tc \in TableConfidences, c \in ItemConfidences,
            ct \in SeqsOfLen(ScoreCellTexts, n[1]),
            bt \in SeqsOfLen(ScoreBlockTexts, n[2])} :
        n \in {m \in (0..MaxItems) \X (0..MaxItems) \X (0..1) :
                  m[1] + m[2] + m[3] <= MaxItems}}

\* The "perfect extraction": one 2x2 table of four distinct numeric cells, one
\* readable text block, confidence 0.95 on every datum.
PerfectDocument ==
    LET p == Provenance(1, Frac(95, 100))
    IN  Document("doc", "doc.pdf", 1,
            <<TextBlock(<<"a", "n", "a">>, p)>>,
            <<Table(<<TableCell(<<"1">>, 0, 0, TRUE, p, NoneVal),
                      TableCell(<<"2">>, 0, 1, TRUE, p, NoneVal),
                      TableCell(<<"1", "2">>, 1, 0, FALSE, p, NoneVal),
                      TableCell(<<"2", "1">>, 1, 1, FALSE, p, NoneVal)>>,
                    Str("table_1"), p)>>,
            <<>>, [error |-> NoneVal])

ScoreDocuments == GeneratedDocuments \cup {PerfectDocument}

ScoreInputs ==
    {build_result(d, "pdfplumber", ok, IF ok THEN NoneVal ELSE Str("extraction failed")) :
        d \in ScoreDocuments, ok \in BOOLEAN}

NotYet == [pending |-> TRUE]

-----------------------------------------------------------------------------
(* Specification Spec: one call of QualityScorer.score_extraction_result.  *)

\* No QualityScorer object is followed.
ScorersIdle ==
    /\ scorers = <<>>
    /\ score_log = <<>>

\* No web session is followed.
WebIdle ==
    /\ web_session = NotYet
    /\ web_pc = "not_started"
    /\ upload_pc = "idle"
    /\ web_methods = <<>>
    /\ web_plan = <<>>
    /\ web_fault = "none"
    /\ web_i = 0
    /\ web_results = <<>>
    /\ status_reply = NotYet

\* No batch run is under way.
BatchIdle ==
    /\ frontend = "none"
    /\ methods_to_use = <<>>
    /\ adapter_plan = <<>>
    /\ method_idx = 0
    /\ batch_pc = "idle"
    /\ report_path = NoneVal
    /\ quarantine_file = NoneVal
    /\ discarded_entries = <<>>

ScoreIdle ==
    /\ results = <<>>
    /\ comparison = NotYet
    /\ adapter_out = NotYet
    /\ pc = "idle"
    /\ idx = 0
    /\ normalized_text_blocks = <<>>
    /\ normalized_tables = <<>>
    /\ normalized_key_values = <<>>
    /\ quarantine_entries = <<>>
    /\ raised = NoneVal
    /\ extraction = NotYet
    /\ BatchIdle

Init ==
    /\ result \in ScoreInputs
    /\ score_data = NotYet
    /\ ScoreIdle
    /\ call = NotYet
    /\ ret = NotYet
    /\ ScorersIdle
    /\ WebIdle

ScoreExtractionResult ==
    /\ score_data = NotYet
    /\ score_data' = score_extraction_result(result)
    /\ UNCHANGED <<result, results, comparison, adapter_out, pc, idx,
                   normalized_text_blocks, normalized_tables, normalized_key_values,
                   quarantine_entries, raised, extraction>>
    /\ UNCHANGED <<call_vars, batch_vars>>
    /\ UNCHANGED scorer_vars
    /\ UNCHANGED web_vars

Next == ScoreExtractionResult

Spec == Init /\ [][Next]_vars

-----------------------------------------------------------------------------
(* The score's components, read off the metrics of the returned dictionary. *)

Scored == score_data # NotYet

SuccessComponent(sd) == IF sd.basic_metrics.success THEN Frac(3, 10) ELSE Zero

TableApplies(sd) == sd.table_metrics.table_count > 0
TextApplies(sd) == sd.text_metrics.text_block_count > 0
ConfidenceApplies(sd) == sd.confidence_metrics.has_confidence_scores

TableComponent(sd) ==
    LET t == sd.table_metrics
    IN  IF TableApplies(sd)
        THEN FMul(Frac(4, 10),
                  FSum(<<FMul(Frac(3, 10), FSub(One, t.empty_cell_rate)),
                         FMul(Frac(2, 10), t.numeric_cell_parse_rate),
                         FMul(Frac(3, 10), t.table_completeness_score),
                         FMul(Frac(2, 10), FSub(One, t.duplicate_cell_rate))>>))
        ELSE Zero

TextComponent(sd) ==
    IF TextApplies(sd) THEN FMul(Frac(2, 10), sd.text_metrics.readable_text_rate) ELSE Zero

\* The mean of the document's confidences, NoneVal when it has none.
MeanConfidence(r) ==
    LET cs == collect_confidences(r.document)
    IN  IF cs = <<>> THEN NoneVal ELSE FDiv(FSum(cs), Frac(Len(cs), 1))

\* 0.1 x the mean.
ConfidenceComponent(r) ==
    IF MeanConfidence(r) = NoneVal THEN Zero ELSE FMul(Frac(1, 10), MeanConfidence(r))

\* What the code adds for the confidences: 0.1 x the mean, and 0.1 x 0.5 when
\* the mean is 0.
ConfidenceAdded(r) ==
    IF MeanConfidence(r) = NoneVal THEN Zero
    ELSE IF MeanConfidence(r) = Zero THEN Frac(5, 100)
    ELSE FMul(Frac(1, 10), MeanConfidence(r))

AppliedWeights(sd) ==
    FSum(<<Frac(3, 10),
           IF TableApplies(sd) THEN Frac(4, 10) ELSE Zero,
           IF TextApplies(sd) THEN Frac(2, 10) ELSE Zero,
           IF ConfidenceApplies(sd) THEN Frac(1, 10) ELSE Zero>>)

AllWeights == FSum(<<Frac(3, 10), Frac(4, 10), Frac(2, 10), Frac(1, 10)>>)

WeightedSum(sd, r) ==
    FSum(<<SuccessComponent(sd), TableComponent(sd), TextComponent(sd), ConfidenceAdded(r)>>)

EmptyInput ==
    /\ result.document.tables = <<>>
    /\ result.document.text_blocks = <<>>
    /\ collect_confidences(result.document) = <<>>

-----------------------------------------------------------------------------
(* Claims on the overall score.                                            *)

C3_PerfectScore ==
    (Scored /\ result.document = PerfectDocument /\ result.success)
        => score_data.overall_score = Frac(995, 1000)

C3_Witness ==
    /\ Scored
    /\ result.document = PerfectDocument
    /\ result.success
    /\ score_data.table_metrics.avg_rows_per_table = Frac(2, 1)
    /\ score_data.table_metrics.avg_cols_per_table = Frac(2, 1)
    /\ score_data.table_metrics.duplicate_cell_rate = Zero
    /\ score_data.table_metrics.numeric_cell_parse_rate = One
    /\ score_data.confidence_metrics.avg_confidence = Frac(95, 100)

\* C4: the overall score of every result lies in [0, 1].
C4_ScoreBounded ==
    Scored => /\ FLeq(Zero, score_data.overall_score)
              /\ FLeq(score_data.overall_score, One)

C4_Witness ==
    /\ Scored
    /\ TableApplies(score_data)
    /\ TextApplies(score_data)
    /\ ConfidenceApplies(score_data)
    /\ FLess(Zero, score_data.overall_score)
    /\ FLess(score_data.overall_score, One)

\* C7 (as stated): whenever a datum carries a confidence, the confidence
\* component of the overall score is 0.1 x the mean of the confidences, a mean
\* of 0 included.
C7_ConfidenceComponentIsTenthOfMean ==
    (Scored /\ ConfidenceApplies(score_data)) =>
        score_data.overall_score =
            FDiv(FSum(<<SuccessComponent(score_data), TableComponent(score_data),
                        TextComponent(score_data), ConfidenceComponent(result)>>),
                 AllWeights)

-----------------------------------------------------------------------------
(* Specification SpecCompare: one call of compare_extraction_results on a  *)
(* batch of results of one source document.                                *)

MaxResults == 3

CellOne == TableCell(<<"1">>, 0, 0, TRUE, Provenance(1, NoneVal), NoneVal)
BlockAna == TextBlock(<<"a", "n", "a">>, Provenance(1, NoneVal))
TableOne == Table(<<CellOne>>, Str("table_1"), Provenance(1, NoneVal))

\* One table, no text; one table and one text block; one text block, no table.
TableOnlyDocument ==
    Document("doc", "doc.pdf", 1, <<>>, <<TableOne>>, <<>>, [error |-> NoneVal])
TableAndTextDocument ==
    Document("doc", "doc.pdf", 1, <<BlockAna>>, <<TableOne>>, <<>>, [error |-> NoneVal])
TextOnlyDocument ==
    Document("doc", "doc.pdf", 1, <<BlockAna>>, <<>>, <<>>, [error |-> NoneVal])

CompareInputs ==
    UNION {
        {build_result(d, m, TRUE, NoneVal) :
            d \in {TableOnlyDocument, TableAndTextDocument, TextOnlyDocument}}
        \cup {build_result(UnknownDocument, m, FALSE, Str("extraction failed"))} :
        m \in ExtractionMethod}

InitCompare ==
    /\ results \in UNION {SeqsOfLen(CompareInputs, n) : n \in 0..MaxResults}
    /\ comparison = NotYet
    /\ result = NotYet
    /\ score_data = NotYet
    /\ adapter_out = NotYet
    /\ pc = "idle"
    /\ idx = 0
    /\ normalized_text_blocks = <<>>
    /\ normalized_tables = <<>>
    /\ normalized_key_values = <<>>
    /\ quarantine_entries = <<>>
    /\ raised = NoneVal
    /\ extraction = NotYet
    /\ call = NotYet
    /\ ret = NotYet
    /\ BatchIdle
    /\ ScorersIdle
    /\ WebIdle

CompareExtractionResults ==
    /\ comparison = NotYet
    /\ comparison' = compare_extraction_results(results)
    /\ UNCHANGED <<result, score_data, results, adapter_out, pc, idx,
                   normalized_text_blocks, normalized_tables, normalized_key_values,
                   quarantine_entries, raised, extraction>>
    /\ UNCHANGED <<call_vars, batch_vars>>
    /\ UNCHANGED scorer_vars
    /\ UNCHANGED web_vars

NextCompare == CompareExtractionResults

SpecCompare == InitCompare /\ [][NextCompare]_vars

Compared == comparison # NotYet /\ comparison # EmptyDict

\* The overall score of every input result, as a tuple.
InputScores ==
    <<>> \o [i \in 1..Len(results) |-> score_extraction_result(results[i]).overall_score]
TablesOf(i) == Len(results[i].document.tables)
TextBlocksOf(i) == Len(results[i].document.text_blocks)

\* Input position i comes before input position j in the ranking by the scores
\* sc: a greater score, or the same score and an earlier position.
RanksBefore(sc, i, j) == FLess(sc[j], sc[i]) \/ (sc[j] = sc[i] /\ i < j)

\* The input position at place k of the ranking.
RankedPosition(sc, k) ==
    CHOOSE i \in 1..Len(sc) :
        Cardinality({j \in 1..Len(sc) : RanksBefore(sc, j, i)}) = k - 1

\* The first input position that attains the greatest value of F.
FirstGreatest(F(_)) ==
    CHOOSE i \in 1..Len(results) :
        /\ \A j \in 1..Len(results) : F(j) <= F(i)
        /\ \A j \in 1..Len(results) : F(j) = F(i) => i <= j

\* The input position, first in the ranking, that attains the greatest value of F.
FirstRankedGreatest(sc, F(_)) ==
    CHOOSE i \in 1..Len(sc) :
        /\ \A j \in 1..Len(sc) : F(j) <= F(i)
        /\ \A j \in 1..Len(sc) : (F(j) = F(i) /\ j # i) => RanksBefore(sc, i, j)

\* C5: method_rankings is the input in descending score order, equal scores in
\* input order, and best_overall is the first input result of the greatest
\* score; scores [0.7, 0.9, 0.9] rank as [second, third, first].
C5_StableRanking ==
    Compared =>
        LET sc == InputScores
        IN  /\ comparison.method_rankings =
                   [k \in 1..Len(results) |-> results[RankedPosition(sc, k)].method]
            /\ comparison.best_overall = comparison.method_rankings[1]
            /\ \E i \in 1..Len(results) :
                  /\ comparison.best_overall = results[i].method
                  /\ \A j \in 1..Len(results) : FLeq(sc[j], sc[i])
                  /\ \A j \in 1..(i - 1) : FLess(sc[j], sc[i])
            /\ sc = <<Frac(7, 10), Frac(9, 10), Frac(9, 10)>>
               => /\ comparison.method_rankings =
                         <<results[2].method, results[3].method, results[1].method>>
                  /\ comparison.best_overall = results[2].method

C5_Witness ==
    /\ Compared
    /\ InputScores = <<Frac(7, 10), Frac(9, 10), Frac(9, 10)>>
    /\ results[1].method = "pdfplumber"
    /\ results[2].method = "camelot-lattice"
    /\ results[3].method = "tabula"

\* C6 (as stated): best_tables and best_text are the first results in input
\* order among those of the greatest table count and text-block count.
C6_CategoryTiesByInputOrder ==
    Compared =>
        /\ comparison.best_tables = results[FirstGreatest(TablesOf)].method
        /\ comparison.best_text = results[FirstGreatest(TextBlocksOf)].method

\* C6 (amended): best_tables and best_text are the first results in
\* method_rankings order (descending overall score, equal scores in input
\* order) among those of the greatest table count and text-block count.
C6_CategoryTiesByRanking ==
    Compared =>
        LET sc == InputScores
        IN  /\ comparison.best_tables = results[FirstRankedGreatest(sc, TablesOf)].method
            /\ comparison.best_text = results[FirstRankedGreatest(sc, TextBlocksOf)].method

\* Two results tie on the table count and the later one scores higher.
C6_Witness ==
    /\ Compared
    /\ Len(results) = 2
    /\ TablesOf(1) = 1
    /\ TablesOf(2) = 1
    /\ FLess(InputScores[1], InputScores[2])
    /\ results[1].method # results[2].method

-----------------------------------------------------------------------------
(* Specification SpecExtract: one call of cli.extract_with_method.  The    *)
(* adapter returns a Document or raises; the Document goes through         *)
(* DataNormalizer.normalize_extraction_result item by item.  Items are     *)
(* Python objects, whose fields an adapter may have left malformed: a text *)
(* that is no str, a provenance that is None.                              *)

OkProvenance == Provenance(1, NoneVal)

RawTextBlocks ==
    {[text |-> <<"a", "sp", "sp", "n">>, provenance |-> OkProvenance],
     [text |-> <<"ctl">>, provenance |-> OkProvenance],
     [text |-> NotAStr, provenance |-> OkProvenance],
     [text |-> <<"a", "n", "a">>, provenance |-> NoneVal]}

RawCell(raw_text, col_idx, provenance) ==
    [raw_text |-> raw_text, row_idx |-> 0, col_idx |-> col_idx, is_header |-> TRUE,
     provenance |-> provenance, parsed_number |-> NoneVal]

RawCells ==
    {RawCell(<<"1">>, 0, OkProvenance),
     RawCell(<<"2">>, 4, OkProvenance),
     RawCell(<<"sp">>, 1, OkProvenance),
     RawCell(<<"1">>, 1, NoneVal),
     RawCell(NotAStr, 0, OkProvenance)}

RawTableHeads ==
    {[table_id |-> Str("table_1"), provenance |-> OkProvenance],
     [table_id |-> NoneVal, provenance |-> OkProvenance],
     [table_id |-> Str("table_1"), provenance |-> NoneVal]}

RawKeyValues ==
    {[key |-> <<"a">>, value |-> <<"1", "sp">>, provenance |-> OkProvenance],
     [key |-> <<"ctl">>, value |-> <<"1">>, provenance |-> OkProvenance],
     [key |-> <<"a">>, value |-> <<"1">>, provenance |-> NoneVal]}

RawTables(nc) ==
    {[cells |-> cs, table_id |-> h.table_id, provenance |-> h.provenance] :
        cs \in SeqsOfLen(RawCells, nc), h \in RawTableHeads}

\* Every document of at most MaxItems items, with at most one table.
RawDocuments ==
    UNION {
        {Document("doc", "doc.pdf", 1, bs, ts, kvs, [error |-> NoneVal]) :
            bs \in SeqsOfLen(RawTextBlocks, n[1]),
            ts \in (IF n[2] = 0 THEN {<<>>} ELSE {})
                   \cup {<<t>> : t \in RawTables(n[2])},
            kvs \in SeqsOfLen(RawKeyValues, n[3])} :
        n \in {m \in (0..MaxItems) \X (0..MaxItems) \X (0..MaxItems) :
                  m[1] + m[2] + m[3] <= MaxItems}}

\* What an adapter returns when it absorbs its own failure (CamelotAdapter.extract).
AbsorbedFailureDocument ==
    Document("doc", "doc.pdf", 1, <<>>, <<>>, <<>>,
             [error |-> Str("Camelot extraction failed")])

AdapterOutcomes ==
    {Exc("RuntimeError", "adapter failed")} \cup {AbsorbedFailureDocument} \cup RawDocuments

adapter_method == "camelot-lattice"

InitExtract ==
    /\ result = NotYet
    /\ score_data = NotYet
    /\ results = <<>>
    /\ comparison = NotYet
    /\ adapter_out = NotYet
    /\ pc = "start"
    /\ idx = 0
    /\ normalized_text_blocks = <<>>
    /\ normalized_tables = <<>>
    /\ normalized_key_values = <<>>
    /\ quarantine_entries = <<>>
    /\ raised = NoneVal
    /\ extraction = NotYet
    /\ call = NotYet
    /\ ret = NotYet
    /\ BatchIdle
    /\ ScorersIdle
    /\ WebIdle

\* document = adapter.extract(...)
AdapterExtract ==
    /\ pc = "start"
    /\ \E out \in AdapterOutcomes :
          /\ adapter_out' = out
          /\ pc' = IF IsExc(out) THEN "except" ELSE "normalize"
          /\ raised' = IF IsExc(out) THEN out ELSE NoneVal
    /\ UNCHANGED <<result, score_data, results, comparison, idx,
                   normalized_text_blocks, normalized_tables, normalized_key_values,
                   quarantine_entries, extraction>>
    /\ UNCHANGED <<call_vars, batch_vars>>
    /\ UNCHANGED scorer_vars
    /\ UNCHANGED web_vars

\* One turn of a loop of _apply_normalization_rules over `items`, the helper's
\* outcome being o: the value is appended to `list` unless it is None.
Appended(list, o) == IF o.value # NoneVal THEN Append(list, o.value) ELSE list

NormalizeTextBlock ==
    /\ pc = "normalize"
    /\ idx < Len(adapter_out.text_blocks)
    /\ LET o == normalize_text_block(adapter_out.text_blocks[idx + 1], adapter_method)
       IN  IF o.raised # NoneVal
           THEN /\ pc' = "except"
                /\ raised' = o.raised
                /\ UNCHANGED <<idx, normalized_text_blocks, quarantine_entries>>
           ELSE /\ normalized_text_blocks' = Appended(normalized_text_blocks, o)
                /\ quarantine_entries' = quarantine_entries \o o.entries
                /\ idx' = idx + 1
                /\ UNCHANGED <<pc, raised>>
    /\ UNCHANGED <<result, score_data, results, comparison, adapter_out,
                   normalized_tables, normalized_key_values, extraction>>
    /\ UNCHANGED <<call_vars, batch_vars>>
    /\ UNCHANGED scorer_vars
    /\ UNCHANGED web_vars

NormalizeTable ==
    /\ pc = "normalize"
    /\ idx >= Len(adapter_out.text_blocks)
    /\ idx < Len(adapter_out.text_blocks) + Len(adapter_out.tables)
    /\ LET o == normalize_table(adapter_out.tables[idx - Len(adapter_out.text_blocks) + 1],
                                adapter_method)
       IN  IF o.raised # NoneVal
           THEN /\ pc' = "except"
                /\ raised' = o.raised
                /\ UNCHANGED <<idx, normalized_tables, quarantine_entries>>
           ELSE /\ normalized_tables' = Appended(normalized_tables, o)
                /\ quarantine_entries' = quarantine_entries \o o.entries
                /\ idx' = idx + 1
                /\ UNCHANGED <<pc, raised>>
    /\ UNCHANGED <<result, score_data, results, comparison, adapter_out,
                   normalized_text_blocks, normalized_key_values, extraction>>
    /\ UNCHANGED <<call_vars, batch_vars>>
    /\ UNCHANGED scorer_vars
    /\ UNCHANGED web_vars

NormalizeKeyValue ==
    /\ pc = "normalize"
    /\ idx >= Len(adapter_out.text_blocks) + Len(adapter_out.tables)
    /\ idx < Len(adapter_out.text_blocks) + Len(adapter_out.tables)
             + Len(adapter_out.key_values)
    /\ LET o == normalize_key_value(
                    adapter_out.key_values[idx - Len(adapter_out.text_blocks)
                                           - Len(adapter_out.tables) + 1],
                    adapter_method)
       IN  IF o.raised # NoneVal
           THEN /\ pc' = "except"
                /\ raised' = o.raised
                /\ UNCHANGED <<idx, normalized_key_values, quarantine_entries>>
           ELSE /\ normalized_key_values' = Appended(normalized_key_values, o)
                /\ quarantine_entries' = quarantine_entries \o o.entries
                /\ idx' = idx + 1
                /\ UNCHANGED <<pc, raised>>
    /\ UNCHANGED <<result, score_data, results, comparison, adapter_out,
                   normalized_text_blocks, normalized_tables, extraction>>
    /\ UNCHANGED <<call_vars, batch_vars>>
    /\ UNCHANGED scorer_vars
    /\ UNCHANGED web_vars

\* The normalized Document, its counts, and `return result` of the try block.
ReturnResult ==
    /\ pc = "normalize"
    /\ idx = Len(adapter_out.text_blocks) + Len(adapter_out.tables)
             + Len(adapter_out.key_values)
    /\ extraction' =
           build_result(
               Document(adapter_out.id, adapter_out.file_name, adapter_out.page_count,
                        normalized_text_blocks, normalized_tables, normalized_key_values,
                        adapter_out.extraction_metadata),
               adapter_method, TRUE, NoneVal)
    /\ pc' = "returned"
    /\ UNCHANGED <<result, score_data, results, comparison, adapter_out, idx,
                   normalized_text_blocks, normalized_tables, normalized_key_values,
                   quarantine_entries, raised>>
    /\ UNCHANGED <<call_vars, batch_vars>>
    /\ UNCHANGED scorer_vars
    /\ UNCHANGED web_vars

\* except Exception as e: a fresh DataNormalizer makes the failed result.
HandleException ==
    /\ pc = "except"
    /\ extraction' = build_result(UnknownDocument, adapter_method, FALSE, Str(raised.msg))
    /\ quarantine_entries' = <<>>
    /\ normalized_text_blocks' = <<>>
    /\ normalized_tables' = <<>>
    /\ normalized_key_values' = <<>>
    /\ pc' = "returned"
    /\ UNCHANGED <<result, score_data, results, comparison, adapter_out, idx, raised>>
    /\ UNCHANGED <<call_vars, batch_vars>>
    /\ UNCHANGED scorer_vars
    /\ UNCHANGED web_vars

NextExtract ==
    \/ AdapterExtract
    \/ NormalizeTextBlock
    \/ NormalizeTable
    \/ NormalizeKeyValue
    \/ ReturnResult
    \/ HandleException

SpecExtract == InitExtract /\ [][NextExtract]_vars

-----------------------------------------------------------------------------
(* Claims on extract_with_method and the normalizer.                       *)

Returned == pc = "returned"

\* The adapter call failed: it raised, or it returned a Document whose
\* extraction_metadata carries an error.
AdapterFailed ==
    IF IsExc(adapter_out) THEN TRUE
    ELSE adapter_out # NotYet /\ adapter_out.extraction_metadata.error # NoneVal

\* C8 (as stated): a failure at the adapter level, raised or absorbed, gives a
\* result with success=False and an error_message; error_message is set if and
\* only if success is False.
C8_AdapterFailureIsSurfaced ==
    Returned =>
        /\ AdapterFailed =>
              (~ extraction.success /\ extraction.error_message # NoneVal)
        /\ extraction.error_message # NoneVal <=> ~ extraction.success

\* The normalization of the adapter's document ran to its end.
Normalized == Returned /\ extraction.success

IsTextBlockData(d) == "text" \in DOMAIN d
IsCellData(d) == "raw_text" \in DOMAIN d
IsTableData(d) == "cells" \in DOMAIN d
IsKeyValueData(d) == "key" \in DOMAIN d

InputCells == Flatten([t \in 1..Len(adapter_out.tables) |-> adapter_out.tables[t].cells])

RECURSIVE Sum(_)
Sum(s) == IF s = <<>> THEN 0 ELSE Head(s) + Sum(Tail(s))

SumOver(s, F(_)) == Sum([i \in 1..Len(s) |-> F(s[i])])

\* C9 (as stated): per category, the number of quarantine entries plus the
\* number of accepted items is the number of input items, those dropped for an
\* empty text or key excepted; the entries of the table cells are those that
\* hold a cell or a rejected table.
C9_QuarantineAccountsForEveryItem ==
    Normalized =>
        LET EntryOfText(e) == IsTextBlockData(e.original_data)
            EntryOfKeyValue(e) == IsKeyValueData(e.original_data)
            EntryOfCells(e) == IsCellData(e.original_data) \/ IsTableData(e.original_data)
            EmptyText(b) == convert_text_block(b) = NoneVal
            EmptyKey(kv) == convert_key_value(kv) = NoneVal
            AcceptedCells(t) == Len(t.cells)
        IN  /\ Count(quarantine_entries, EntryOfText)
               + Len(extraction.document.text_blocks)
               = Len(adapter_out.text_blocks) - Count(adapter_out.text_blocks, EmptyText)
            /\ Count(quarantine_entries, EntryOfKeyValue)
               + Len(extraction.document.key_values)
               = Len(adapter_out.key_values) - Count(adapter_out.key_values, EmptyKey)
            /\ Count(quarantine_entries, EntryOfCells)
               + SumOver(extraction.document.tables, AcceptedCells)
               = Len(InputCells)

\* The items whose helper has been called so far.
ProcessedTextBlocks ==
    SubSeq(adapter_out.text_blocks, 1,
           IF idx < Len(adapter_out.text_blocks) THEN idx ELSE Len(adapter_out.text_blocks))
ProcessedCells ==
    IF idx > Len(adapter_out.text_blocks) THEN InputCells ELSE <<>>
ProcessedKeyValues ==
    SubSeq(adapter_out.key_values, 1,
           IF idx > Len(adapter_out.text_blocks) + Len(adapter_out.tables)
           THEN idx - Len(adapter_out.text_blocks) - Len(adapter_out.tables) ELSE 0)

\* C10 (as stated): a conversion error on a text block, a table cell or a
\* key-value is caught, adds exactly one quarantine entry whose failure_reason
\* is the exception's message, and the remaining items are still normalized.
C10_ConversionErrorIsQuarantined ==
    /\ pc = "except" => IsExc(adapter_out)
    /\ pc = "normalize" =>
          LET ThrowsText(b) == IsExc(convert_text_block(b))
              ThrowsCell(c) == IsExc(convert_table_cell(c))
              ThrowsKeyValue(kv) == IsExc(convert_key_value(kv))
              EntryOfText(e) ==
                  /\ IsTextBlockData(e.original_data)
                  /\ ThrowsText(e.original_data)
                  /\ e.failure_reason = convert_text_block(e.original_data).msg
              EntryOfCell(e) ==
                  /\ IsCellData(e.original_data)
                  /\ ThrowsCell(e.original_data)
                  /\ e.failure_reason = convert_table_cell(e.original_data).msg
              EntryOfKeyValue(e) ==
                  /\ IsKeyValueData(e.original_data)
                  /\ ThrowsKeyValue(e.original_data)
                  /\ e.failure_reason = convert_key_value(e.original_data).msg
          IN  /\ Count(quarantine_entries, EntryOfText)
                 = Count(ProcessedTextBlocks, ThrowsText)
              /\ Count(quarantine_entries, EntryOfCell)
                 = Count(ProcessedCells, ThrowsCell)
              /\ Count(quarantine_entries, EntryOfKeyValue)
                 = Count(ProcessedKeyValues, ThrowsKeyValue)

-----------------------------------------------------------------------------
(* normalize.py: normalize_extraction_result as one call.                  *)

\* The helper _apply_normalization_rules calls on an item of the kind.
normalize_item(kind, item, method) ==
    CASE kind = "text_block" -> normalize_text_block(item, method)
      [] kind = "table" -> normalize_table(item, method)
      [] kind = "key_value" -> normalize_key_value(item, method)

\* The three loops of _apply_normalization_rules, one after the other, over
\* the items each with its kind: the values that are not None are collected;
\* an exception ends the loops.
RECURSIVE normalize_each(_, _)
normalize_each(items, method) ==
    IF items = <<>> THEN Outcome(<<>>, <<>>, NoneVal)
    ELSE LET o == normalize_item(Head(items).kind, Head(items).item, method)
         IN  IF o.raised # NoneVal THEN Outcome(<<>>, o.entries, o.raised)
             ELSE LET rest == normalize_each(Tail(items), method)
                  IN  Outcome((IF o.value # NoneVal
                               THEN <<[kind |-> Head(items).kind, item |-> o.value]>>
                               ELSE <<>>) \o rest.value,
                              o.entries \o rest.entries, rest.raised)

OfKind(kind, items) == <<>> \o [i \in 1..Len(items) |-> [kind |-> kind, item |-> items[i]]]

RECURSIVE ItemsOfKind(_, _)
ItemsOfKind(kind, tagged) ==
    IF tagged = <<>> THEN <<>>
    ELSE (IF Head(tagged).kind = kind THEN <<Head(tagged).item>> ELSE <<>>)
         \o ItemsOfKind(kind, Tail(tagged))

\* "Create normalized document": the Document of the collected values.
normalized_document(document, o) ==
    Outcome(Document(document.id, document.file_name, document.page_count,
                     ItemsOfKind("text_block", o.value), ItemsOfKind("table", o.value),
                     ItemsOfKind("key_value", o.value), document.extraction_metadata),
            o.entries, o.raised)

apply_normalization_rules(document, method) ==
    normalized_document(document,
        normalize_each(OfKind("text_block", document.text_blocks)
                       \o OfKind("table", document.tables)
                       \o OfKind("key_value", document.key_values), method))

\* isinstance(raw_result, Document)
IsDocument(raw_result) == "text_blocks" \in DOMAIN raw_result

\* The ExtractionResult of the normalized document o, unless an exception left
\* _apply_normalization_rules.
result_of(o, method, success, error_message) ==
    IF o.raised # NoneVal THEN Outcome(NoneVal, o.entries, o.raised)
    ELSE Outcome(build_result(o.value, method, success, error_message), o.entries, NoneVal)

\* normalize_extraction_result normalizing the Document of a failed extraction
\* instead of replacing it.
normalize_extraction_result_keeps_failed(raw_result, method, success, error_message) ==
    IF ~ IsDocument(raw_result)
    THEN Outcome(build_result(UnknownDocument, method, success, error_message),
                 <<>>, NoneVal)
    ELSE result_of(apply_normalization_rules(raw_result, method), method, success,
                   error_message)

\* The value is the ExtractionResult returned, the entries are those the
\* normalizer holds after the call.
normalize_extraction_result(raw_result, method, success, error_message) ==
    IF ~ success \/ ~ IsDocument(raw_result)
    THEN Outcome(build_result(UnknownDocument, method, success, error_message),
                 <<>>, NoneVal)
    ELSE result_of(apply_normalization_rules(raw_result, method), method, success,
                   error_message)

-----------------------------------------------------------------------------
(* Specification SpecNormalize: one call of                                *)
(* DataNormalizer.normalize_extraction_result on a document with one table *)
(* laid out on a grid.                                                     *)

MaxGrid == 4

\* The position at place i of a grid of nrows x ncols: the far corner first,
\* then row by row.
GridPosition(nrows, ncols, i) ==
    IF i = 1 THEN [row |-> nrows - 1, col |-> ncols - 1]
    ELSE [row |-> (i - 2) \div ncols, col |-> (i - 2) % ncols]

\* The cells of a table on the first n positions of the grid; the cell at
\* place `bad` (none when 0) has no provenance, so that its conversion throws.
RECURSIVE GridCells(_, _, _, _)
GridCells(nrows, ncols, n, bad) ==
    IF n = 0 THEN <<>>
    ELSE Append(GridCells(nrows, ncols, n - 1, bad),
                [raw_text |-> IF n % 2 = 0 THEN <<"1">> ELSE <<"a", "sp">>,
                 row_idx |-> GridPosition(nrows, ncols, n).row,
                 col_idx |-> GridPosition(nrows, ncols, n).col,
                 is_header |-> FALSE,
                 provenance |-> IF n = bad THEN NoneVal ELSE OkProvenance,
                 parsed_number |-> NoneVal])

GridTable(nrows, ncols, n, bad) ==
    [cells |-> GridCells(nrows, ncols, n, bad),
     table_id |-> Str("table_1"),
     provenance |-> OkProvenance]

GridTables ==
    UNION {UNION {UNION {{GridTable(nrows, ncols, n, bad) : bad \in {0, 1, n}} :
                      n \in 1..(nrows * ncols)} :
               ncols \in 1..MaxGrid} :
        nrows \in 1..MaxGrid}

GridDocuments ==
    {Document("invoice", "invoice.pdf", 2, bs, <<t>>, <<>>, [error |-> NoneVal]) :
        bs \in {<<>>, <<[text |-> <<"a", "sp", "sp", "n">>, provenance |-> OkProvenance]>>},
        t \in GridTables}

NormalizeCalls ==
    {[op |-> "normalize_extraction_result", raw_result |-> d, method |-> "pdfplumber",
      success |-> ok,
      error_message |-> IF ok THEN NoneVal ELSE Str("extraction failed")] :
        d \in GridDocuments \cup {NoneVal}, ok \in BOOLEAN}

InitNormalize ==
    /\ call \in NormalizeCalls
    /\ ret = NotYet
    /\ result = NotYet
    /\ score_data = NotYet
    /\ ScoreIdle
    /\ ScorersIdle
    /\ WebIdle

NormalizeExtractionResult ==
    /\ ret = NotYet
    /\ call # NotYet
    /\ call.op = "normalize_extraction_result"
    /\ ret' = normalize_extraction_result(call.raw_result, call.method, call.success,
                                          call.error_message)
    /\ UNCHANGED <<result, score_data, results, comparison, adapter_out, pc, idx,
                   normalized_text_blocks, normalized_tables, normalized_key_values,
                   quarantine_entries, raised, extraction, call>>
    /\ UNCHANGED batch_vars
    /\ UNCHANGED scorer_vars
    /\ UNCHANGED web_vars

NextNormalize == NormalizeExtractionResult

SpecNormalize == InitNormalize /\ [][NextNormalize]_vars

-----------------------------------------------------------------------------
(* Claims on normalize_extraction_result.                                  *)

\* The call has returned an ExtractionResult for a Document.
NormalizedDocument ==
    /\ ret # NotYet
    /\ call.op = "normalize_extraction_result"
    /\ IsDocument(call.raw_result)
    /\ ret.raised = NoneVal

InputTable == call.raw_result.tables[1]

\* The places of the input table's candidate cells: those whose conversion
\* does not throw.
CandidatePlaces ==
    {i \in 1..Len(InputTable.cells) : ~ IsExc(convert_table_cell(InputTable.cells[i]))}

\* (max_row + 1) * (max_col + 1) over the candidate cells.
ExpectedCells ==
    LET max_row == CHOOSE r \in {InputTable.cells[i].row_idx : i \in CandidatePlaces} :
                       \A i \in CandidatePlaces : InputTable.cells[i].row_idx <= r
        max_col == CHOOSE c \in {InputTable.cells[i].col_idx : i \in CandidatePlaces} :
                       \A i \in CandidatePlaces : InputTable.cells[i].col_idx <= c
    IN  (max_row + 1) * (max_col + 1)

TableRejected ==
    /\ ret.value.document.tables = <<>>
    /\ Len(ret.entries) = 1
    /\ ret.entries[1].failure_reason = "Invalid table structure"
    /\ ret.entries[1].original_data = InputTable

TableKept ==
    /\ Len(ret.value.document.tables) = 1
    /\ Len(ret.value.document.tables[1].cells) = Cardinality(CandidatePlaces)
    /\ \A i \in CandidatePlaces :
          \E j \in 1..Len(ret.value.document.tables[1].cells) :
              /\ ret.value.document.tables[1].cells[j].row_idx = InputTable.cells[i].row_idx
              /\ ret.value.document.tables[1].cells[j].col_idx = InputTable.cells[i].col_idx
    /\ ret.entries = <<>>

\* C11: a table (a Table of the schema: table_id and provenance set) with at
\* least one candidate cell is rejected wholesale, with exactly one quarantine
\* entry 'Invalid table structure', if and only if its candidate cell count is
\* strictly less than 0.5 * (max_row+1) * (max_col+1); otherwise it is kept
\* with all of its candidate cells and nothing is quarantined.
C11_RejectedIffTooSparse ==
    (NormalizedDocument /\ call.success /\ CandidatePlaces # {}) =>
        IF 2 * Cardinality(CandidatePlaces) < ExpectedCells
        THEN TableRejected
        ELSE TableKept

\* A table rejected although some of its cells are candidates, one of its
\* cells not being a candidate.
C11_Witness ==
    /\ NormalizedDocument
    /\ call.success
    /\ Cardinality(CandidatePlaces) = 3
    /\ Len(InputTable.cells) = 4
    /\ ExpectedCells = 8
    /\ TableRejected

\* The table of the example: max_row = max_col = 3 and exactly 8 cells, all
\* of them candidates.
HalfFilledTable ==
    /\ NormalizedDocument
    /\ call.success
    /\ Len(InputTable.cells) = 8
    /\ Cardinality(CandidatePlaces) = 8
    /\ \E i \in CandidatePlaces : InputTable.cells[i].row_idx = 3
    /\ \E i \in CandidatePlaces : InputTable.cells[i].col_idx = 3
    /\ \A i \in CandidatePlaces : InputTable.cells[i].row_idx <= 3
    /\ \A i \in CandidatePlaces : InputTable.cells[i].col_idx <= 3

\* C12 (as stated): a table with max_row = max_col = 3 and exactly 8 populated
\* cells is rejected by the normalizer.
C12_HalfFilledRejected == HalfFilledTable => TableRejected

\* C12 (amended): a table with max_row = max_col = 3 and exactly 8 populated
\* cells is kept by the normalizer, with its 8 cells and no quarantine entry:
\* 8 is not strictly less than 0.5 * 16.
C12_HalfFilledKept == HalfFilledTable => TableKept

C12_Witness == HalfFilledTable /\ ExpectedCells = 16

\* C13 (as stated): given a Document, the document of the returned result has
\* the id, file_name and page_count of the input, whether success is True or False.
C13_IdentityPreserved ==
    NormalizedDocument =>
        /\ ret.value.document.id = call.raw_result.id
        /\ ret.value.document.file_name = call.raw_result.file_name
        /\ ret.value.document.page_count = call.raw_result.page_count

\* C13 (amended): given a Document and success=True, the document of the
\* returned result has the id, file_name and page_count of the input; given
\* success=False, it is the empty document 'unknown' of one page, whatever
\* the input.
C13_IdentityPreservedOnSuccess ==
    NormalizedDocument =>
        IF call.success
        THEN /\ ret.value.document.id = call.raw_result.id
             /\ ret.value.document.file_name = call.raw_result.file_name
             /\ ret.value.document.page_count = call.raw_result.page_count
        ELSE ret.value.document = UnknownDocument

\* A Document handed over with success=False.
C13_Witness ==
    /\ NormalizedDocument
    /\ ~ call.success
    /\ call.raw_result.id = "invoice"
    /\ call.raw_result.page_count = 2
    /\ ret.value.success = FALSE

-----------------------------------------------------------------------------
(* provenance.py and the BoundingBox of schema.py.                         *)
(*                                                                         *)
(* A float is a fraction or NaN; every ordered comparison with NaN is      *)
(* False.  A value that float() refuses (a str that is no number) is       *)
(* NotANumber.                                                             *)

NaN == [nan |-> TRUE]
NotANumber == Str("abc")

IsNumber(v) == "n" \in DOMAIN v
IsFloat(v) == IsNumber(v) \/ v = NaN

\* a <= b on floats
float_le(a, b) == IsNumber(a) /\ IsNumber(b) /\ FLeq(a, b)

\* a + b on two values of a dict: floats add, two str concatenate, a float and
\* a str or None raise TypeError.
py_add(a, b) ==
    IF IsNumber(a) /\ IsNumber(b) THEN FAdd(a, b)
    ELSE IF IsFloat(a) /\ IsFloat(b) THEN NaN
    ELSE IF a = NotANumber /\ b = NotANumber THEN NotANumber
    ELSE Exc("TypeError", "unsupported operand type(s) for +")

\* BoundingBox(x0=..., y0=..., x1=..., y1=...): the four fields are floats and
\* the validators of x1 and y1 raise when v <= values['x0'] and v <= values['y0'].
BoundingBox(x0, y0, x1, y1) ==
    IF ~ (IsFloat(x0) /\ IsFloat(y0) /\ IsFloat(x1) /\ IsFloat(y1))
    THEN Exc("ValidationError", "value is not a valid float")
    ELSE IF float_le(x1, x0)
    THEN Exc("ValidationError", "x1 must be greater than x0")
    ELSE IF float_le(y1, y0)
    THEN Exc("ValidationError", "y1 must be greater than y0")
    ELSE [x0 |-> x0, y0 |-> y0, x1 |-> x1, y1 |-> y1]

create_bbox_from_coords(x0, y0, x1, y1) == BoundingBox(x0, y0, x1, y1)

\* all(key in bbox_dict for key in keys)
has_keys(bbox_dict, keys) == keys \subseteq DOMAIN bbox_dict

\* The except clause of create_bbox_from_dict: KeyError, TypeError and
\* ValueError (pydantic's ValidationError is a ValueError) give None.
none_if_caught(r) ==
    IF IsExc(r) /\ r.exc \in {"KeyError", "TypeError", "ValueError", "ValidationError"}
    THEN NoneVal
    ELSE r

\* BoundingBox of two corners of which the far one is computed: an exception
\* of the computation comes before the construction.
bbox_of_sums(x0, y0, x1, y1) ==
    IF IsExc(x1) THEN x1
    ELSE IF IsExc(y1) THEN y1
    ELSE BoundingBox(x0, y0, x1, y1)

\* The try block of create_bbox_from_dict.  `key in bbox_dict` raises
\* TypeError on None.
bbox_from_dict(bbox_dict) ==
    IF bbox_dict = NoneVal
    THEN Exc("TypeError", "argument of type 'NoneType' is not iterable")
    ELSE IF has_keys(bbox_dict, {"x0", "y0", "x1", "y1"})
    THEN BoundingBox(bbox_dict.x0, bbox_dict.y0, bbox_dict.x1, bbox_dict.y1)
    ELSE IF has_keys(bbox_dict, {"left", "top", "right", "bottom"})
    THEN BoundingBox(bbox_dict.left, bbox_dict.top, bbox_dict.right, bbox_dict.bottom)
    ELSE IF has_keys(bbox_dict, {"x", "y", "width", "height"})
    THEN bbox_of_sums(bbox_dict.x, bbox_dict.y,
                      py_add(bbox_dict.x, bbox_dict.width),
                      py_add(bbox_dict.y, bbox_dict.height))
    ELSE NoneVal

\* create_bbox_from_dict catching every exception but those it names.
create_bbox_from_dict_uncaught(bbox_dict) == bbox_from_dict(bbox_dict)

create_bbox_from_dict(bbox_dict) == none_if_caught(bbox_from_dict(bbox_dict))

\* The members of the enum ExtractionMethod.
ExtractionMethodMembers ==
    [PDFPLUMBER |-> "pdfplumber", CAMELOT_LATTICE |-> "camelot-lattice",
     CAMELOT_STREAM |-> "camelot-stream", TABULA |-> "tabula", POPPLER |-> "poppler",
     ADOBE_EXTRACT |-> "adobe", AWS_TEXTRACT |-> "textract", GOOGLE_DOCAI |-> "docai",
     AZURE_READ |-> "azure-read", AZURE_LAYOUT |-> "azure-layout",
     TESSERACT_OCR |-> "tesseract", LLM_EXTRACTION |-> "llm"]

ExtractionMethodValues == {ExtractionMethodMembers[k] : k \in DOMAIN ExtractionMethodMembers}

\* ExtractionMethod.NAME for each name of a list: the names the enum does not
\* have (the attribute access raises AttributeError).
missing_members(names) == {k \in names : k \notin DOMAIN ExtractionMethodMembers}

\* method in [ExtractionMethod.NAME, ...], every name being a member
method_in(method, names) == \E k \in names : ExtractionMethodMembers[k] = method

\* float(confidence)
to_float(confidence) ==
    IF IsFloat(confidence) THEN confidence
    ELSE Exc("ValueError", "could not convert string to float")

\* "For other methods or unknown ranges, assume 0-1"
assume_unit_range(conf_float) ==
    IF float_le(Zero, conf_float) /\ float_le(conf_float, One) THEN conf_float
    ELSE IF float_le(Zero, conf_float) /\ float_le(conf_float, Frac(100, 1))
    THEN FDiv(conf_float, Frac(100, 1))
    ELSE NoneVal

unit_or_assumed(conf_float) ==
    IF float_le(Zero, conf_float) /\ float_le(conf_float, One) THEN conf_float
    ELSE assume_unit_range(conf_float)

\* The if/elif chain of normalize_confidence on a float, the branches in the
\* order of the code.
confidence_of_float(conf_float, method) ==
    IF method = ExtractionMethodMembers.AWS_TEXTRACT
    THEN IF float_le(Zero, conf_float) /\ float_le(conf_float, Frac(100, 1))
         THEN FDiv(conf_float, Frac(100, 1))
         ELSE assume_unit_range(conf_float)
    ELSE IF missing_members({"GOOGLE_DOCAI_OCR", "GOOGLE_DOCAI_FORM", "GOOGLE_DOCAI_LAYOUT"}) # {}
    THEN Exc("AttributeError", "GOOGLE_DOCAI_OCR")
    ELSE IF method_in(method, {"GOOGLE_DOCAI_OCR", "GOOGLE_DOCAI_FORM", "GOOGLE_DOCAI_LAYOUT"})
    THEN unit_or_assumed(conf_float)
    ELSE IF method_in(method, {"AZURE_READ", "AZURE_LAYOUT"})
    THEN unit_or_assumed(conf_float)
    ELSE IF method = ExtractionMethodMembers.ADOBE_EXTRACT
    THEN unit_or_assumed(conf_float)
    ELSE assume_unit_range(conf_float)

\* except (ValueError, TypeError) gives None; any other exception leaves.
normalize_confidence(confidence, method) ==
    IF confidence = NoneVal THEN NoneVal
    ELSE IF IsExc(to_float(confidence)) THEN NoneVal
    ELSE confidence_of_float(to_float(confidence), method)

-----------------------------------------------------------------------------
(* Specification SpecProvenance: one call of create_bbox_from_coords, of   *)
(* create_bbox_from_dict or of normalize_confidence, and for               *)
(* normalize_confidence a second call on what the first returned.          *)

MaxCoord == 2

Coordinates == {Frac(c, 1) : c \in 0..MaxCoord} \cup {NaN}

\* What a vendor's dict may hold for a key.
DictValues == Coordinates \cup {NotANumber}

BboxDicts ==
    {[x0 |-> a, y0 |-> b, x1 |-> c, y1 |-> d] : a, b, c, d \in DictValues}
    \cup {[left |-> a, top |-> b, right |-> c, bottom |-> d] : a, b, c, d \in DictValues}
    \cup {[x |-> a, y |-> b, width |-> c, height |-> d] : a, b, c, d \in DictValues}
    \cup {[x0 |-> a, y0 |-> a, x1 |-> b, y1 |-> b, left |-> b, top |-> b,
           right |-> a, bottom |-> a] : a, b \in Coordinates}
    \cup {[x0 |-> a, y0 |-> b] : a, b \in Coordinates}
    \cup {[x |-> a, y |-> a, w |-> b, h |-> b] : a, b \in Coordinates}
    \cup {[Left |-> a] : a \in Coordinates}
    \cup {NoneVal}

RawConfidences ==
    {NoneVal, NotANumber, NaN, Frac(-1, 1), Zero, Frac(1, 2), Frac(95, 100), One,
     Frac(50, 1), Frac(100, 1), Frac(150, 1)}

ProvenanceCalls ==
    {[op |-> "create_bbox_from_coords", x0 |-> a, y0 |-> b, x1 |-> c, y1 |-> d] :
        a, b, c, d \in Coordinates}
    \cup {[op |-> "create_bbox_from_dict", bbox_dict |-> d] : d \in BboxDicts}
    \cup {[op |-> "normalize_confidence", confidence |-> c, method |-> m, calls |-> 1] :
            c \in RawConfidences, m \in ExtractionMethodValues}

InitProvenance ==
    /\ call \in ProvenanceCalls
    /\ ret = NotYet
    /\ result = NotYet
    /\ score_data = NotYet
    /\ ScoreIdle
    /\ ScorersIdle
    /\ WebIdle

CreateBboxFromCoords ==
    /\ ret = NotYet
    /\ call # NotYet
    /\ call.op = "create_bbox_from_coords"
    /\ ret' = create_bbox_from_coords(call.x0, call.y0, call.x1, call.y1)
    /\ UNCHANGED <<result, score_data, results, comparison, adapter_out, pc, idx,
                   normalized_text_blocks, normalized_tables, normalized_key_values,
                   quarantine_entries, raised, extraction, call>>
    /\ UNCHANGED batch_vars
    /\ UNCHANGED scorer_vars
    /\ UNCHANGED web_vars

CreateBboxFromDict ==
    /\ ret = NotYet
    /\ call # NotYet
    /\ call.op = "create_bbox_from_dict"
    /\ ret' = create_bbox_from_dict(call.bbox_dict)
    /\ UNCHANGED <<result, score_data, results, comparison, adapter_out, pc, idx,
                   normalized_text_blocks, normalized_tables, normalized_key_values,
                   quarantine_entries, raised, extraction, call>>
    /\ UNCHANGED batch_vars
    /\ UNCHANGED scorer_vars
    /\ UNCHANGED web_vars

NormalizeConfidence ==
    /\ ret = NotYet
    /\ call # NotYet
    /\ call.op = "normalize_confidence"
    /\ ret' = normalize_confidence(call.confidence, call.method)
    /\ UNCHANGED <<result, score_data, results, comparison, adapter_out, pc, idx,
                   normalized_text_blocks, normalized_tables, normalized_key_values,
                   quarantine_entries, raised, extraction, call>>
    /\ UNCHANGED batch_vars
    /\ UNCHANGED scorer_vars
    /\ UNCHANGED web_vars

\* normalize_confidence(normalize_confidence(v, m), m): the second call, on
\* what the first returned.
NormalizeConfidenceAgain ==
    /\ ret # NotYet
    /\ call # NotYet
    /\ call.op = "normalize_confidence"
    /\ call.calls = 1
    /\ ~ IsExc(ret)
    /\ call' = [call EXCEPT !.calls = 2] @@ [first |-> ret]
    /\ ret' = normalize_confidence(ret, call.method)
    /\ UNCHANGED <<result, score_data, results, comparison, adapter_out, pc, idx,
                   normalized_text_blocks, normalized_tables, normalized_key_values,
                   quarantine_entries, raised, extraction>>
    /\ UNCHANGED batch_vars
    /\ UNCHANGED scorer_vars
    /\ UNCHANGED web_vars

NextProvenance ==
    \/ CreateBboxFromCoords
    \/ CreateBboxFromDict
    \/ NormalizeConfidence
    \/ NormalizeConfidenceAgain

SpecProvenance == InitProvenance /\ [][NextProvenance]_vars

-----------------------------------------------------------------------------
(* Claims on provenance.py.                                                *)

Called(op) == call # NotYet /\ ret # NotYet /\ call.op = op

IsBox(r) == "x0" \in DOMAIN r

\* a > b on floats
float_gt(a, b) == IsNumber(a) /\ IsNumber(b) /\ FLess(b, a)

\* C17 (as stated): create_bbox_from_coords returns the box of exactly the
\* coordinates whenever x1 > x0 and y1 > y0, fails with a validation error
\* whenever x1 <= x0 or y1 <= y0, and every box that exists has x1 > x0 and
\* y1 > y0.
C17_BoxIffOrderedCorners ==
    Called("create_bbox_from_coords") =>
        /\ (float_gt(call.x1, call.x0) /\ float_gt(call.y1, call.y0))
              => ret = [x0 |-> call.x0, y0 |-> call.y0, x1 |-> call.x1, y1 |-> call.y1]
        /\ (float_le(call.x1, call.x0) \/ float_le(call.y1, call.y0))
              => (IsExc(ret) /\ ret.exc = "ValidationError")
        /\ IsBox(ret) => (float_gt(ret.x1, ret.x0) /\ float_gt(ret.y1, ret.y0))

\* The corners a dict of a recognized shape stands for, the shapes in the
\* order x0/y0/x1/y1, left/top/right/bottom, x/y/width/height.
HasShape(d) ==
    /\ d # NoneVal
    /\ \/ {"x0", "y0", "x1", "y1"} \subseteq DOMAIN d
       \/ {"left", "top", "right", "bottom"} \subseteq DOMAIN d
       \/ {"x", "y", "width", "height"} \subseteq DOMAIN d

Corners(d) ==
    IF {"x0", "y0", "x1", "y1"} \subseteq DOMAIN d
    THEN [x0 |-> d.x0, y0 |-> d.y0, x1 |-> d.x1, y1 |-> d.y1]
    ELSE IF {"left", "top", "right", "bottom"} \subseteq DOMAIN d
    THEN [x0 |-> d.left, y0 |-> d.top, x1 |-> d.right, y1 |-> d.bottom]
    ELSE [x0 |-> d.x, y0 |-> d.y,
          x1 |-> IF IsNumber(d.x) /\ IsNumber(d.width) THEN FAdd(d.x, d.width)
                 ELSE IF IsFloat(d.x) /\ IsFloat(d.width) THEN NaN ELSE NotANumber,
          y1 |-> IF IsNumber(d.y) /\ IsNumber(d.height) THEN FAdd(d.y, d.height)
                 ELSE IF IsFloat(d.y) /\ IsFloat(d.height) THEN NaN ELSE NotANumber]

\* C18 (as stated): create_bbox_from_dict never raises; for a dict of one of
\* the three shapes it returns the box of the shape's corners, and for any
\* other input None.
C18_DictGivesBoxOrNone ==
    Called("create_bbox_from_dict") =>
        /\ ~ IsExc(ret)
        /\ IF HasShape(call.bbox_dict)
           THEN ret = Corners(call.bbox_dict)
           ELSE ret = NoneVal

\* The corners are floats and neither x1 <= x0 nor y1 <= y0.
Constructible(c) ==
    /\ IsFloat(c.x0) /\ IsFloat(c.y0) /\ IsFloat(c.x1) /\ IsFloat(c.y1)
    /\ ~ float_le(c.x1, c.x0)
    /\ ~ float_le(c.y1, c.y0)

\* C18 (amended): create_bbox_from_dict never raises; for a dict of one of the
\* three shapes (tried in the order x0/y0/x1/y1, left/top/right/bottom,
\* x/y/width/height) it returns the box of the shape's corners when
\* BoundingBox accepts them, and None when it refuses them (x1 <= x0,
\* y1 <= y0, or a value that is no float); for any other input None.
C18_DictGivesValidBoxOrNone ==
    Called("create_bbox_from_dict") =>
        /\ ~ IsExc(ret)
        /\ IF HasShape(call.bbox_dict) /\ Constructible(Corners(call.bbox_dict))
           THEN ret = Corners(call.bbox_dict)
           ELSE ret = NoneVal

\* A dict of the shape x/y/width/height whose box is empty (width 0).
C18_Witness ==
    /\ Called("create_bbox_from_dict")
    /\ call.bbox_dict # NoneVal
    /\ DOMAIN call.bbox_dict = {"x", "y", "width", "height"}
    /\ call.bbox_dict.x = One
    /\ call.bbox_dict.width = Zero
    /\ call.bbox_dict.height = One
    /\ IsNumber(call.bbox_dict.y)
    /\ ret = NoneVal

InUnit(v) == float_le(Zero, v) /\ float_le(v, One)

\* The methods of a vendor with the native scale 0-1.
UnitScaleMethods == {"azure-read", "azure-layout", "adobe", "docai"}

\* C19 (as stated): normalize_confidence returns None or a value in [0,1] for
\* every raw value and method, and None when raw is outside the method's
\* native scale: [0,100] for Textract, [0,1] for Azure, Adobe and Document AI.
C19_NoneOrUnitAndNoneOutOfScale ==
    (Called("normalize_confidence") /\ call.calls = 1) =>
        /\ ret = NoneVal \/ InUnit(ret)
        /\ (/\ call.method = "textract"
            /\ IsFloat(call.confidence)
            /\ ~ (float_le(Zero, call.confidence) /\ float_le(call.confidence, Frac(100, 1))))
              => ret = NoneVal
        /\ (/\ call.method \in UnitScaleMethods
            /\ IsFloat(call.confidence)
            /\ ~ InUnit(call.confidence))
              => ret = NoneVal

\* C20 (as stated): for every method m and every v in [0,1],
\* normalize_confidence(normalize_confidence(v, m), m) = normalize_confidence(v, m).
C20_Idempotent ==
    (Called("normalize_confidence") /\ InUnit(call.confidence)) =>
        /\ ~ IsExc(ret)
        /\ call.calls = 2 => ret = call.first

-----------------------------------------------------------------------------
(* cli.py: extract_with_method as one call, and the batch run over one PDF *)
(* of process_pdf_file (cli.py) and process_pdf_async (web/app.py).        *)

\* The failed result of the except branch of extract_with_method.
failed_result(method, e) ==
    normalize_extraction_result(NoneVal, method, FALSE, Str(e.msg)).value

\* The result of the try block unless an exception left the normalizer; the
\* entries are those of the normalizer of the try block, which nothing reads.
returned_or_failed(o, method) ==
    IF o.raised # NoneVal
    THEN Outcome(failed_result(method, o.raised), o.entries, NoneVal)
    ELSE o

\* extract_with_method, `outcome` being what adapter.extract returns or raises.
extract_with_method(outcome, method) ==
    IF IsExc(outcome)
    THEN Outcome(failed_result(method, outcome), <<>>, NoneVal)
    ELSE returned_or_failed(normalize_extraction_result(outcome, method, TRUE, NoneVal),
                            method)

\* results[method] = result of process_pdf_async: a dict keeps one value per key.
RECURSIVE dict_set(_, _)
dict_set(rs, r) ==
    IF rs = <<>> THEN <<r>>
    ELSE IF Head(rs).method = r.method THEN <<r>> \o Tail(rs)
    ELSE <<Head(rs)>> \o dict_set(Tail(rs), r)

\* comparison = {'single_method': True} of process_pdf_async
SingleMethod == [single_method |-> TRUE]

-----------------------------------------------------------------------------
(* Specification SpecBatch: one batch run.  Each requested method's        *)
(* adapter cannot be created, or its extract call returns a Document,      *)
(* raises, or never returns.                                               *)

MaxMethods == 2

BatchMethods == {"pdfplumber", "tabula"}

\* create_adapter raises; adapter.extract returns, raises, never returns.
AdapterPlans == {"no_adapter", "returns", "raises", "hangs"}

\* A document of one text block and one table too sparse to be kept.
BatchDocument ==
    Document("doc", "doc.pdf", 1,
             <<[text |-> <<"a", "n", "a">>, provenance |-> OkProvenance]>>,
             <<[cells |-> <<RawCell(<<"1">>, 0, OkProvenance), RawCell(<<"2">>, 4, OkProvenance)>>,
                table_id |-> Str("table_1"), provenance |-> OkProvenance]>>,
             <<>>, [error |-> NoneVal])

\* What adapter.extract does under a plan that lets it come back.
adapter_extract(plan) ==
    IF plan = "raises" THEN Exc("RuntimeError", "adapter failed") ELSE BatchDocument

InitBatch ==
    /\ frontend \in {"cli", "web"}
    /\ \E n \in 0..MaxMethods :
          /\ methods_to_use \in SeqsOfLen(BatchMethods, n)
          /\ adapter_plan \in SeqsOfLen(AdapterPlans, n)
    /\ method_idx = 0
    /\ batch_pc = "loop"
    /\ report_path = NoneVal
    /\ quarantine_file = NoneVal
    /\ discarded_entries = <<>>
    /\ results = <<>>
    /\ comparison = NotYet
    /\ result = NotYet
    /\ score_data = NotYet
    /\ adapter_out = NotYet
    /\ pc = "idle"
    /\ idx = 0
    /\ normalized_text_blocks = <<>>
    /\ normalized_tables = <<>>
    /\ normalized_key_values = <<>>
    /\ quarantine_entries = <<>>
    /\ raised = NoneVal
    /\ extraction = NotYet
    /\ call = NotYet
    /\ ret = NotYet
    /\ ScorersIdle
    /\ WebIdle

\* adapter = create_adapter(method): an exception skips the method.
CreateAdapter ==
    /\ batch_pc = "loop"
    /\ method_idx < Len(methods_to_use)
    /\ IF adapter_plan[method_idx + 1] = "no_adapter"
       THEN /\ method_idx' = method_idx + 1
            /\ UNCHANGED batch_pc
       ELSE /\ batch_pc' = "extract"
            /\ UNCHANGED method_idx
    /\ UNCHANGED <<result, score_data, results, comparison, adapter_out, pc, idx,
                   normalized_text_blocks, normalized_tables, normalized_key_values,
                   quarantine_entries, raised, extraction, call, ret,
                   frontend, methods_to_use, adapter_plan,
                   report_path, quarantine_file, discarded_entries>>
    /\ UNCHANGED scorer_vars
    /\ UNCHANGED web_vars

\* result = extract_with_method(adapter, ...) and results.append(result) or
\* results[method] = result.  The call has no timeout: it comes back when
\* adapter.extract does.
ExtractReturns ==
    /\ batch_pc = "extract"
    /\ adapter_plan[method_idx + 1] # "hangs"
    /\ method_idx' = method_idx + 1
    /\ batch_pc' = "loop"

ExtractWithMethod ==
    /\ ExtractReturns
    /\ LET o == extract_with_method(adapter_extract(adapter_plan[method_idx + 1]),
                                    methods_to_use[method_idx + 1])
       IN  /\ results' = IF frontend = "web" THEN dict_set(results, o.value)
                         ELSE Append(results, o.value)
           /\ discarded_entries' = discarded_entries \o o.entries
    /\ UNCHANGED <<result, score_data, comparison, adapter_out, pc, idx,
                   normalized_text_blocks, normalized_tables, normalized_key_values,
                   quarantine_entries, raised, extraction, call, ret,
                   frontend, methods_to_use, adapter_plan,
                   report_path, quarantine_file>>
    /\ UNCHANGED scorer_vars
    /\ UNCHANGED web_vars

\* comparison = compare_extraction_results(results); process_pdf_async calls
\* it for more than one result only.
LoopEnds ==
    /\ batch_pc = "loop"
    /\ method_idx = Len(methods_to_use)
    /\ batch_pc' = "export"
    /\ UNCHANGED method_idx

Compare ==
    /\ LoopEnds
    /\ comparison' = IF frontend = "web" /\ ~ (Len(results) > 1) THEN SingleMethod
                     ELSE compare_extraction_results(results)
    /\ UNCHANGED <<result, score_data, results, adapter_out, pc, idx,
                   normalized_text_blocks, normalized_tables, normalized_key_values,
                   quarantine_entries, raised, extraction, call, ret,
                   frontend, methods_to_use, adapter_plan,
                   report_path, quarantine_file, discarded_entries>>
    /\ UNCHANGED scorer_vars
    /\ UNCHANGED web_vars

\* exporter.export_comparison_report(comparison, ...); process_pdf_async
\* calls it for more than one result only.  No one calls
\* export_quarantine_data.
ExportReport ==
    /\ batch_pc = "export"
    /\ report_path' = IF frontend = "web" /\ ~ (Len(results) > 1) THEN NoneVal
                      ELSE Str("reports/doc_comparison.md")
    /\ batch_pc' = "done"
    /\ UNCHANGED <<result, score_data, results, comparison, adapter_out, pc, idx,
                   normalized_text_blocks, normalized_tables, normalized_key_values,
                   quarantine_entries, raised, extraction, call, ret,
                   frontend, methods_to_use, adapter_plan, method_idx,
                   quarantine_file, discarded_entries>>
    /\ UNCHANGED scorer_vars
    /\ UNCHANGED web_vars

NextBatch ==
    \/ CreateAdapter
    \/ ExtractWithMethod
    \/ Compare
    \/ ExportReport

SpecBatch == InitBatch /\ [][NextBatch]_vars

\* Where the run stands: every step of NextBatch changes it.
batch_position == <<batch_pc, method_idx>>

\* The run is one sequential thread: it takes its next step whenever it has
\* one, and it has none while adapter.extract does not come back.
SpecBatchLive ==
    /\ InitBatch
    /\ [][NextBatch]_vars
    /\ WF_batch_position(CreateAdapter)
    /\ WF_batch_position(ExtractReturns)
    /\ WF_batch_position(LoopEnds)
    /\ WF_batch_position(ExportReport)

-----------------------------------------------------------------------------
(* Claims on the batch run.                                                *)

BatchDone == batch_pc = "done"

\* C14 (as stated): a batch run, of the CLI or of the web front end, always
\* writes a comparison report, whatever the number of results and of failed
\* results; for no result the comparison is the empty object.
C14_ReportAlwaysWritten ==
    BatchDone =>
        /\ report_path # NoneVal
        /\ results = <<>> => comparison = EmptyDict

\* C15 (as stated): every batch run writes the quarantine file, empty when
\* nothing was rejected, and every quarantine entry a DataNormalizer of the
\* run accumulated is in the file.
C15_QuarantineFileWritten ==
    BatchDone =>
        /\ quarantine_file # NoneVal
        /\ \A i \in 1..Len(discarded_entries) :
              \E j \in 1..Len(quarantine_file) : quarantine_file[j] = discarded_entries[i]

\* Every method whose adapter was created has its result, and the result of a
\* method whose extract call never returns is a failed one with an error message.
AllRecorded ==
    \A i \in 1..Len(methods_to_use) :
        adapter_plan[i] # "no_adapter" =>
            \E j \in 1..Len(results) :
                /\ results[j].method = methods_to_use[i]
                /\ adapter_plan[i] = "hangs" =>
                      (~ results[j].success /\ results[j].error_message # NoneVal)

BatchFinished == BatchDone /\ comparison # NotYet /\ AllRecorded

\* C16 (as stated): also when an adapter's extract call never returns, the
\* batch eventually finishes, with the timed-out method recorded as a failed
\* result and the other methods extracted, scored and compared.
C16_BatchEventuallyFinishes == <>BatchFinished

-----------------------------------------------------------------------------
(* provenance.py: filter_by_confidence.  An item is an object, a record of *)
(* its attributes.                                                         *)

\* A list as a value held where None may be held too.
List(items) == [list |-> items]

\* hasattr(obj, name)
hasattr(obj, name) == name \in DOMAIN obj

\* confidence >= min_confidence raises TypeError unless both are floats.
comparable(confidence, min_confidence) == IsFloat(confidence) /\ IsFloat(min_confidence)

\* confidence >= min_confidence with > in the place of >=.
at_least_strict(confidence, min_confidence) ==
    IsNumber(confidence) /\ IsNumber(min_confidence) /\ FLess(min_confidence, confidence)

\* confidence >= min_confidence on two floats: False when one is NaN.
at_least(confidence, min_confidence) ==
    float_le(min_confidence, confidence)

\* if confidence is None or confidence >= min_confidence, and the except
\* branch, which includes the item the comparison raised on.
passes_filter(confidence, min_confidence) ==
    \/ confidence = NoneVal
    \/ ~ comparable(confidence, min_confidence)
    \/ at_least(confidence, min_confidence)

\* The body of the loop: whether the item is appended to filtered_items.
item_included(item, min_confidence, confidence_attr) ==
    IF hasattr(item, "provenance") /\ hasattr(item.provenance, "confidence")
    THEN passes_filter(item.provenance.confidence, min_confidence)
    ELSE IF hasattr(item, confidence_attr)
    THEN passes_filter(item[confidence_attr], min_confidence)
    ELSE TRUE

RECURSIVE filter_by_confidence(_, _, _)
filter_by_confidence(items, min_confidence, confidence_attr) ==
    IF items = <<>> THEN <<>>
    ELSE (IF item_included(Head(items), min_confidence, confidence_attr)
          THEN <<Head(items)>> ELSE <<>>)
         \o filter_by_confidence(Tail(items), min_confidence, confidence_attr)

-----------------------------------------------------------------------------
(* Specification SpecFilter: one call of filter_by_confidence on a list of *)
(* objects: data of the schema (a provenance whose confidence is None or   *)
(* in [0,1]) and other objects with or without a confidence attribute.     *)

MaxFiltered == 3

ItemShapes ==
    {[provenance |-> [page |-> 1, confidence |-> c]] :
        c \in {NoneVal, Zero, Frac(1, 2), One}}
    \cup {[provenance |-> NoneVal, confidence |-> c] :
            c \in {NoneVal, Zero, Frac(1, 2), NaN, NotANumber}}
    \cup {[provenance |-> [page |-> 1, confidence |-> NoneVal], confidence |-> Zero],
          [score |-> Zero],
          [text |-> "a"]}

\* The items of a list are distinct objects.
ItemLists ==
    UNION {{[i \in 1..n |-> shapes[i] @@ [id |-> i]] : shapes \in SeqsOfLen(ItemShapes, n)} :
           n \in 0..MaxFiltered}

Thresholds == {Zero, Frac(1, 2), One, NaN}

FilterCalls ==
    {[op |-> "filter_by_confidence", items |-> items, min_confidence |-> t,
      confidence_attr |-> a] :
        items \in ItemLists, t \in Thresholds, a \in {"confidence", "score"}}

InitFilter ==
    /\ call \in FilterCalls
    /\ ret = NotYet
    /\ result = NotYet
    /\ score_data = NotYet
    /\ ScoreIdle
    /\ ScorersIdle
    /\ WebIdle

FilterByConfidence ==
    /\ ret = NotYet
    /\ call # NotYet
    /\ call.op = "filter_by_confidence"
    /\ ret' = List(filter_by_confidence(call.items, call.min_confidence,
                                        call.confidence_attr))
    /\ UNCHANGED <<result, score_data, results, comparison, adapter_out, pc, idx,
                   normalized_text_blocks, normalized_tables, normalized_key_values,
                   quarantine_entries, raised, extraction, call>>
    /\ UNCHANGED batch_vars
    /\ UNCHANGED scorer_vars
    /\ UNCHANGED web_vars

NextFilter == FilterByConfidence

SpecFilter == InitFilter /\ [][NextFilter]_vars

-----------------------------------------------------------------------------
(* Claims on filter_by_confidence.                                         *)

\* The confidence the item carries: that of its provenance, else its own
\* attribute of the name asked for, else None.
CarriedConfidence(item, attr) ==
    IF hasattr(item, "provenance") /\ hasattr(item.provenance, "confidence")
    THEN item.provenance.confidence
    ELSE IF hasattr(item, attr) THEN item[attr]
    ELSE NoneVal

\* The item carries a confidence score: a float.
HasScore(item, attr) == IsFloat(CarriedConfidence(item, attr))

ScoreAtLeast(item, attr, t) ==
    LET c == CarriedConfidence(item, attr)
    IN  IsNumber(c) /\ IsNumber(t) /\ ~ FLess(c, t)

ScoreBelow(item, attr, t) ==
    LET c == CarriedConfidence(item, attr)
    IN  IsNumber(c) /\ IsNumber(t) /\ FLess(c, t)

\* C21: filter_by_confidence(items, t) returns, in their order in items,
\* exactly the items that carry no confidence score or whose score is >= t:
\* an item whose score equals t is returned, no item whose score is below t
\* is, and every item without a score is.
C21_KeepsUnscoredAndAtLeastThreshold ==
    Called("filter_by_confidence") =>
        LET t == call.min_confidence
            attr == call.confidence_attr
            Kept(item) == ~ HasScore(item, attr) \/ ScoreAtLeast(item, attr, t)
        IN  /\ ret.list = SelectSeq(call.items, Kept)
            /\ \A i \in 1..Len(ret.list) : ~ ScoreBelow(ret.list[i], attr, t)
            /\ \A i \in 1..Len(call.items) :
                  (\/ ~ HasScore(call.items[i], attr)
                   \/ /\ IsNumber(t)
                      /\ CarriedConfidence(call.items[i], attr) = t)
                      => \E j \in 1..Len(ret.list) : ret.list[j] = call.items[i]

\* A list of an item below the threshold, an item at the threshold and an
\* item without confidence: the last two are returned, in that order.
C21_Witness ==
    /\ Called("filter_by_confidence")
    /\ Len(call.items) = 3
    /\ call.min_confidence = Frac(1, 2)
    /\ ScoreBelow(call.items[1], call.confidence_attr, call.min_confidence)
    /\ CarriedConfidence(call.items[2], call.confidence_attr) = Frac(1, 2)
    /\ ~ HasScore(call.items[3], call.confidence_attr)
    /\ ret.list = <<call.items[2], call.items[3]>>

-----------------------------------------------------------------------------
(* scoring.py: the QualityScorer object over several calls.                *)

\* QualityScorer(): the attributes __init__ assigns, the compiled patterns.
QualityScorer ==
    [currency_pattern |-> "currency", date_patterns |-> <<"mdy", "ymd", "d_mon_y">>]

\* A scorer that keeps what it returned and returns it again.
score_extraction_result_cached(self, r) ==
    [value |-> IF hasattr(self, "last") THEN self.last ELSE score_extraction_result(r),
     self |-> [currency_pattern |-> self.currency_pattern,
               date_patterns |-> self.date_patterns,
               last |-> score_extraction_result(r)]]

\* scorer.score_extraction_result(result): what it returns and the attributes
\* of the scorer after the call.  The methods read self.currency_pattern and
\* self.date_patterns and assign no attribute; the Timer of time_operation is
\* a local object whose reading goes to the log only.
score_extraction_result_on(self, r) ==
    [value |-> score_extraction_result(r), self |-> self]

-----------------------------------------------------------------------------
(* Specification SpecRescore: two scorers, each asked to score results in  *)
(* any order.                                                              *)

MaxCalls == 3

RescoreInputs ==
    {build_result(PerfectDocument, "pdfplumber", TRUE, NoneVal),
     build_result(TableOnlyDocument, "tabula", TRUE, NoneVal),
     build_result(UnknownDocument, "pdfplumber", FALSE, Str("extraction failed"))}

InitRescore ==
    /\ scorers = <<QualityScorer, QualityScorer>>
    /\ score_log = <<>>
    /\ result = NotYet
    /\ score_data = NotYet
    /\ ScoreIdle
    /\ call = NotYet
    /\ ret = NotYet
    /\ WebIdle

\* score_data = scorers[k].score_extraction_result(r)
ScoreOn(k, r) ==
    /\ Len(score_log) < MaxCalls
    /\ LET o == score_extraction_result_on(scorers[k], r)
       IN  /\ score_log' = Append(score_log,
                                  [scorer |-> k, result |-> r, score_data |-> o.value])
           /\ scorers' = [scorers EXCEPT ![k] = o.self]
    /\ UNCHANGED <<result, score_data, results, comparison, adapter_out, pc, idx,
                   normalized_text_blocks, normalized_tables, normalized_key_values,
                   quarantine_entries, raised, extraction>>
    /\ UNCHANGED <<call_vars, batch_vars>>
    /\ UNCHANGED web_vars

NextRescore == \E k \in 1..Len(scorers), r \in RescoreInputs : ScoreOn(k, r)

SpecRescore == InitRescore /\ [][NextRescore]_vars

-----------------------------------------------------------------------------
(* Claim on repeated scoring.                                              *)

-----------------------------------------------------------------------------
(* Specification SpecClean: one call of _clean_text, or of a helper of the *)
(* normalizer that cleans the text of an item, on a normalizer that may    *)
(* hold a quarantine entry already.                                        *)

MaxText == 5

\* A letter, the space, the newline, and a control character that is no
\* whitespace (NUL, say).
CleanChars == {"a", "sp", "nl", "ctl"}

CleanTexts == UNION {SeqsOfLen(CleanChars, n) : n \in 0..MaxText}

\* The items the schema lets exist with such a text.
CleanTextBlocks ==
    {b \in {TextBlock(t, OkProvenance) : t \in CleanTexts} : ~ IsExc(b)}
CleanCells ==
    {TableCell(t, 1, 2, FALSE, OkProvenance, Unset) : t \in CleanTexts}
CleanKeyValues ==
    {kv \in {KeyValue(k, v, OkProvenance) :
                k \in CleanTexts, v \in {<<>>, <<"sp", "ctl", "sp", "a">>}} : ~ IsExc(kv)}
\* A table of a cell of the text and, for half of the tables, a second cell.
CleanTables ==
    {Table(<<TableCell(t, 0, 1, FALSE, OkProvenance, Unset)>> \o more,
           Str("table_1"), OkProvenance) :
        t \in CleanTexts,
        more \in {<<>>, <<TableCell(<<"a">>, 0, 0, TRUE, OkProvenance, Unset)>>}}

\* An entry a former call left in the normalizer.
PriorEntry ==
    [original_data |-> TextBlock(<<"a">>, OkProvenance), method |-> "pdfplumber",
     failure_reason |-> "former", page |-> 1]

CleanCalls ==
    {[op |-> "clean_text", text |-> t] : t \in CleanTexts}
    \cup {[op |-> "normalize_text_block", item |-> b] : b \in CleanTextBlocks}
    \cup {[op |-> "normalize_table_cell", item |-> c] : c \in CleanCells}
    \cup {[op |-> "normalize_key_value", item |-> kv] : kv \in CleanKeyValues}
    \cup {[op |-> "normalize_table", item |-> t] : t \in CleanTables}

InitClean ==
    /\ call \in CleanCalls
    /\ ret = NotYet
    /\ quarantine_entries \in {<<>>, <<PriorEntry>>}
    /\ result = NotYet
    /\ score_data = NotYet
    /\ results = <<>>
    /\ comparison = NotYet
    /\ adapter_out = NotYet
    /\ pc = "idle"
    /\ idx = 0
    /\ normalized_text_blocks = <<>>
    /\ normalized_tables = <<>>
    /\ normalized_key_values = <<>>
    /\ raised = NoneVal
    /\ extraction = NotYet
    /\ BatchIdle
    /\ ScorersIdle
    /\ WebIdle

\* What the call leaves: the value returned and the entries appended to
\* self.quarantine_entries.
Returns(o) ==
    /\ ret' = o
    /\ quarantine_entries' = quarantine_entries \o o.entries
    /\ UNCHANGED <<result, score_data, results, comparison, adapter_out, pc, idx,
                   normalized_text_blocks, normalized_tables, normalized_key_values,
                   raised, extraction, call>>
    /\ UNCHANGED <<batch_vars, scorer_vars>>
    /\ UNCHANGED web_vars

CleanText ==
    /\ ret = NotYet
    /\ call.op = "clean_text"
    /\ Returns(Outcome(Str(clean_text(call.text)), <<>>, NoneVal))

CleanTextBlock ==
    /\ ret = NotYet
    /\ call.op = "normalize_text_block"
    /\ Returns(normalize_text_block(call.item, "pdfplumber"))

CleanTableCell ==
    /\ ret = NotYet
    /\ call.op = "normalize_table_cell"
    /\ Returns(normalize_table_cell(call.item, "pdfplumber"))

CleanKeyValue ==
    /\ ret = NotYet
    /\ call.op = "normalize_key_value"
    /\ Returns(normalize_key_value(call.item, "pdfplumber"))

CleanTable ==
    /\ ret = NotYet
    /\ call.op = "normalize_table"
    /\ Returns(normalize_table(call.item, "pdfplumber"))

NextClean ==
    \/ CleanText
    \/ CleanTextBlock
    \/ CleanTableCell
    \/ CleanKeyValue
    \/ CleanTable

SpecClean == InitClean /\ [][NextClean]_vars

-----------------------------------------------------------------------------
(* Claims on the cleaning of text.                                         *)

\* The texts the call returned: the str of _clean_text, the text of the
\* block, of the cell or of every cell of the table, the key and the value.
CleanedTexts ==
    IF ret = NotYet \/ ret.value = NoneVal THEN {}
    ELSE IF call.op = "clean_text" THEN {ret.value.str}
    ELSE IF call.op = "normalize_text_block" THEN {ret.value.text}
    ELSE IF call.op = "normalize_table_cell" THEN {ret.value.raw_text}
    ELSE IF call.op = "normalize_key_value" THEN {ret.value.key, ret.value.value}
    ELSE {ret.value.cells[i].raw_text : i \in 1..Len(ret.value.cells)}

IsTrimmed(text) ==
    text = <<>> \/ (~ isspace(text[1]) /\ ~ isspace(text[Len(text)]))

HasWhitespaceRun(text) ==
    \E i \in 1..(Len(text) - 1) : isspace(text[i]) /\ isspace(text[i + 1])

HasControl(text) == \E i \in 1..Len(text) : text[i] \in CtlChars

\* C23 (as stated): the text the normalizer's cleaning returns has no
\* leading or trailing whitespace, no two consecutive whitespace characters
\* and no control character other than newline and tab, for every input
\* string and for block text, cell text, key text and value text alike.
C23_CleanedTextIsCollapsed ==
    \A text \in CleanedTexts :
        /\ IsTrimmed(text)
        /\ ~ HasWhitespaceRun(text)
        /\ ~ HasControl(text)

-----------------------------------------------------------------------------
(* Claim on items whose cleaned text is empty.                             *)

CleansToEmpty(text) == clean_text(text) = <<>>

\* The cell i of the table is in the table returned, blank, where it was.
BlankCellKept(table, returned, i) ==
    /\ returned # NoneVal
    /\ Len(returned.cells) = Len(table.cells)
    /\ returned.cells[i].raw_text = <<>>
    /\ returned.cells[i].row_idx = table.cells[i].row_idx
    /\ returned.cells[i].col_idx = table.cells[i].col_idx

\* C24: a text block whose cleaned text is empty and a key-value whose
\* cleaned key is empty are left out (None is returned) and the call leaves
\* the quarantine list as it was; a table cell whose cleaned text is empty
\* is returned, and is in the table returned, with its row_idx and col_idx.
C24_EmptyDroppedSilentlyBlankCellKept ==
    [][/\ (call.op = "normalize_text_block" /\ CleansToEmpty(call.item.text))
              => (ret'.value = NoneVal /\ quarantine_entries' = quarantine_entries)
       /\ (call.op = "normalize_key_value" /\ CleansToEmpty(call.item.key))
              => (ret'.value = NoneVal /\ quarantine_entries' = quarantine_entries)
       /\ (call.op = "normalize_table_cell" /\ CleansToEmpty(call.item.raw_text))
              => /\ ret'.value # NoneVal
                 /\ ret'.value.raw_text = <<>>
                 /\ ret'.value.row_idx = call.item.row_idx
                 /\ ret'.value.col_idx = call.item.col_idx
       /\ call.op = "normalize_table"
              => \A i \in 1..Len(call.item.cells) :
                    CleansToEmpty(call.item.cells[i].raw_text)
                        => BlankCellKept(call.item, ret'.value, i)
      ]_vars

\* A text block of control characters only was dropped by a normalizer that
\* held an entry, and holds that entry only.
C24_Witness ==
    /\ call.op = "normalize_text_block"
    /\ ret # NotYet
    /\ call.item.text # <<>>
    /\ CleansToEmpty(call.item.text)
    /\ ret.value = NoneVal
    /\ quarantine_entries = <<PriorEntry>>

-----------------------------------------------------------------------------
(* Specification SpecCounts: normalize_extraction_result on a document,    *)
(* then score_extraction_result on the result it returned.                 *)

\* Two tables, of one cell and of two, one of them blank; the confidences
\* differ between the tables and their cells.
TwoTableDocument ==
    Document("doc", "doc.pdf", 1,
        <<TextBlock(<<"a", "n", "a">>, Provenance(1, NoneVal))>>,
        <<Table(<<TableCell(<<"sp">>, 0, 0, TRUE, Provenance(1, Frac(1, 2)), Unset)>>,
                Str("table_1"), Provenance(1, One)),
          Table(<<TableCell(<<"1">>, 0, 0, TRUE, Provenance(1, Zero), Unset),
                  TableCell(<<"a">>, 0, 1, TRUE, Provenance(1, NoneVal), Unset)>>,
                Str("table_2"), Provenance(1, NoneVal))>>,
        <<>>, [error |-> NoneVal])

CountCalls ==
    {[op |-> "normalize_extraction_result", raw_result |-> d, method |-> "pdfplumber",
      success |-> ok,
      error_message |-> IF ok THEN NoneVal ELSE Str("extraction failed")] :
        d \in ScoreDocuments \cup {TwoTableDocument, NoneVal}, ok \in BOOLEAN}

InitCounts ==
    /\ call \in CountCalls
    /\ ret = NotYet
    /\ result = NotYet
    /\ score_data = NotYet
    /\ ScoreIdle
    /\ ScorersIdle
    /\ WebIdle

\* scorer.score_extraction_result(result) on the result returned.
ScoreReturned ==
    /\ ret # NotYet
    /\ ret.raised = NoneVal
    /\ score_data = NotYet
    /\ score_data' = score_extraction_result(ret.value)
    /\ UNCHANGED <<result, results, comparison, adapter_out, pc, idx,
                   normalized_text_blocks, normalized_tables, normalized_key_values,
                   quarantine_entries, raised, extraction, call, ret>>
    /\ UNCHANGED <<batch_vars, scorer_vars>>
    /\ UNCHANGED web_vars

NextCounts ==
    \/ NormalizeExtractionResult
    \/ ScoreReturned

SpecCounts == InitCounts /\ [][NextCounts]_vars

-----------------------------------------------------------------------------
(* Claims on the counts of the result.                                     *)

ResultReturned == ret # NotYet /\ ret.raised = NoneVal

CellsOfTable(t) == Len(t.cells)
BlankCellsOfTable(t) ==
    Cardinality({i \in 1..Len(t.cells) : strip(t.cells[i].raw_text) = <<>>})

\* The confidences the document carries, table by table (the table's, then
\* its cells'), then the text blocks', then the key-values'.
ConfidencesOf(document) ==
    LET Carried(items) ==
            SelectSeq([i \in 1..Len(items) |-> items[i].provenance.confidence],
                      LAMBDA c : c # NoneVal)
        OfTable(t) == Carried(<<t>>) \o Carried(t.cells)
    IN  Flatten([t \in 1..Len(document.tables) |-> OfTable(document.tables[t])])
        \o Carried(document.text_blocks) \o Carried(document.key_values)

CountsAgree(r) ==
    /\ r.total_text_blocks = Len(r.document.text_blocks)
    /\ r.total_tables = Len(r.document.tables)
    /\ r.total_cells = SumOver(r.document.tables, CellsOfTable)
    /\ r.empty_cells = SumOver(r.document.tables, BlankCellsOfTable)
    /\ r.empty_cells <= r.total_cells
    /\ LET confidences == ConfidencesOf(r.document)
       IN  r.avg_confidence =
               IF confidences = <<>> THEN NoneVal
               ELSE FDiv(FSum(confidences), Frac(Len(confidences), 1))

RatesAgree ==
    score_data.basic_metrics.empty_cell_rate
        = FSub(One, score_data.table_metrics.table_completeness_score)

\* C25 (as stated): the counts of every result normalize_extraction_result
\* returns agree with its document (text blocks, tables, cells, blank cells,
\* mean confidence or None), and the scorer's basic empty_cell_rate is
\* 1 - table_completeness_score.
C25_CountsAgreeAndRatesComplement ==
    ResultReturned =>
        /\ CountsAgree(ret.value)
        /\ score_data # NotYet => RatesAgree

\* C25 (amended): the counts agree with the document, and the basic
\* empty_cell_rate is 1 - table_completeness_score when the document has a
\* table; without a table both are 0.
C25_CountsAgreeAndRatesComplementWithTables ==
    ResultReturned =>
        /\ CountsAgree(ret.value)
        /\ score_data # NotYet =>
              IF ret.value.document.tables # <<>> THEN RatesAgree
              ELSE /\ score_data.basic_metrics.empty_cell_rate = Zero
                   /\ score_data.table_metrics.table_completeness_score = Zero

\* The result of the two-table document was scored: three cells, one blank,
\* three confidences.
C25_Witness ==
    /\ ResultReturned
    /\ score_data # NotYet
    /\ ret.value.total_tables = 2
    /\ ret.value.total_cells = 3
    /\ ret.value.empty_cells = 1
    /\ ret.value.avg_confidence = Frac(1, 2)
    /\ score_data.basic_metrics.empty_cell_rate = Frac(1, 3)

-----------------------------------------------------------------------------
(* Specification SpecPositions: normalize_extraction_result on a document  *)
(* whose table holds cells at any positions of a small grid, several cells *)
(* at one position included: the schema asks nothing of the positions of a *)
(* table's cells but row_idx >= 0 and col_idx >= 0.                        *)

MaxCells == 4

GridPositions == (0..1) \X (0..2)

PositionTable(positions) ==
    Table([i \in 1..Len(positions) |->
               TableCell(<<"a">>, positions[i][1], positions[i][2], FALSE,
                         OkProvenance, Unset)],
          Str("table_1"), OkProvenance)

PositionTables ==
    UNION {{PositionTable(ps) : ps \in SeqsOfLen(GridPositions, n)} : n \in 0..MaxCells}

PositionCalls ==
    {[op |-> "normalize_extraction_result",
      raw_result |-> Document("doc", "doc.pdf", 1, <<>>, <<t>>, <<>>, [error |-> NoneVal]),
      method |-> "pdfplumber", success |-> TRUE, error_message |-> NoneVal] :
        t \in PositionTables}

InitPositions ==
    /\ call \in PositionCalls
    /\ ret = NotYet
    /\ result = NotYet
    /\ score_data = NotYet
    /\ ScoreIdle
    /\ ScorersIdle
    /\ WebIdle

NextPositions == NormalizeExtractionResult

SpecPositions == InitPositions /\ [][NextPositions]_vars

-----------------------------------------------------------------------------
(* Claim on the tables the normalizer keeps.                               *)

OccupiedPositions(table) ==
    {<<table.cells[i].row_idx, table.cells[i].col_idx>> : i \in 1..Len(table.cells)}

\* C26 (as stated): every table the normalizer keeps has at least one cell
\* and at least half of its grid positions occupied: the distinct
\* (row_idx, col_idx) of its cells number at least 0.5 * rows * cols, also
\* when several cells report one position.
C26_KeptTableHalfOccupied ==
    NormalizedDocument =>
        \A t \in 1..Len(ret.value.document.tables) :
            LET table == ret.value.document.tables[t]
            IN  /\ Len(table.cells) >= 1
                /\ 2 * Cardinality(OccupiedPositions(table)) >= rows(table) * cols(table)

-----------------------------------------------------------------------------
(* Claim on the entries of the comparison.                                 *)

\* method_rankings holds every method as often as the input results do.
RankingsPermuteMethods ==
    \A m \in ExtractionMethod :
        LET IsM(x) == x = m
            HasM(r) == r.method = m
        IN  Count(comparison.method_rankings, IsM) = Count(results, HasM)

\* C27 (as stated): for a non-empty input list, total_methods is the length
\* of the list, method_rankings is a permutation of the results' methods,
\* and detailed_scores has one entry per input result, the scores of each
\* result among them, also when two results carry the same method.
C27_OneScoreEntryPerResult ==
    Compared =>
        /\ comparison.total_methods = Len(results)
        /\ RankingsPermuteMethods
        /\ Cardinality(DOMAIN comparison.detailed_scores) = Len(results)
        /\ \A i \in 1..Len(results) :
              \E m \in DOMAIN comparison.detailed_scores :
                  comparison.detailed_scores[m] = score_extraction_result(results[i])

-----------------------------------------------------------------------------
(* web/app.py: one upload.  The /upload handler starts a thread that runs  *)
(* process_pdf_async and responds with the session_id; the client then     *)
(* asks /status/<session_id> at any time.  The thread takes one step for   *)
(* each write to processing_status[session_id] and for each call that may  *)
(* raise; a request handler reads the dict between any two of them.        *)

\* The dict process_pdf_async puts at processing_status[session_id] first.
StartingStatus ==
    [status |-> "starting", progress |-> 0, current_method |-> NoneVal,
     completed_methods |-> <<>>, results |-> <<>>, error |-> NoneVal]

\* The dict the except clause puts there when the session is not in
\* processing_status.
RecreatedStatus(e) ==
    [status |-> "error", progress |-> 0, current_method |-> NoneVal,
     completed_methods |-> <<>>, results |-> <<>>, error |-> Str(e)]

\* The progress as the plain share of the methods gone through.
loop_progress_share(i, total_methods) == (i * 100) \div total_methods

\* 10 + (i * 70 // total_methods)
loop_progress(i, total_methods) == 10 + ((i * 70) \div total_methods)

\* What results[method] or processing_status[session_id]['results'][method]
\* holds: the result extract_with_method returned, or {'error': str(e)}.
ResultEntry(method, success) == [method |-> method, kind |-> "result", success |-> success]
ErrorEntry(method) == [method |-> method, kind |-> "error"]

\* serializable_results: one entry for each key of the local dict results.
serializable_results(rs) == rs

\* processing_status.get(session_id, {'status': 'not_found'})
get_status(session) ==
    IF session = NotYet THEN [status |-> "not_found"] ELSE session

-----------------------------------------------------------------------------
(* Specification SpecWeb.                                                  *)

MaxWebMethods == 2

\* create_adapter raises; extract_with_method returns the result of the
\* extraction; adapter.extract raises and extract_with_method returns the
\* failed result.
WebPlans == {"no_adapter", "returns", "extract_raises"}

\* The calls outside the loop that may raise: the imports, detect_pdf_type,
\* compare_extraction_results, the exports, the scoring and serializing.
WebFaults == {"none", "import", "detect", "compare", "export", "serialize"}

InitWeb ==
    /\ web_session = NotYet
    /\ web_pc = "not_started"
    /\ upload_pc = "saved"
    /\ \E n \in 1..MaxWebMethods :
          /\ web_methods \in SeqsOfLen(BatchMethods, n)
          /\ web_plan \in SeqsOfLen(WebPlans, n)
    /\ web_fault \in WebFaults
    /\ web_i = 0
    /\ web_results = <<>>
    /\ status_reply = NotYet
    /\ result = NotYet
    /\ score_data = NotYet
    /\ call = NotYet
    /\ ret = NotYet
    /\ ScoreIdle
    /\ ScorersIdle

\* What a step of the web leaves alone besides the web's own variables.
WebFrame ==
    /\ UNCHANGED <<result, score_data, results, comparison, adapter_out, pc, idx,
                   normalized_text_blocks, normalized_tables, normalized_key_values,
                   quarantine_entries, raised, extraction>>
    /\ UNCHANGED <<call_vars, batch_vars, scorer_vars>>

\* thread.start()
StartThread ==
    /\ upload_pc = "saved"
    /\ upload_pc' = "started"
    /\ web_pc' = "init"
    /\ UNCHANGED <<web_session, web_methods, web_plan, web_fault, web_i, web_results,
                   status_reply>>
    /\ WebFrame

\* return jsonify({'session_id': session_id, ...})
Respond ==
    /\ upload_pc = "started"
    /\ upload_pc' = "responded"
    /\ UNCHANGED <<web_session, web_pc, web_methods, web_plan, web_fault, web_i,
                   web_results, status_reply>>
    /\ WebFrame

\* GET /status/<session_id>, by the client that got the session_id.
GetStatus ==
    /\ upload_pc = "responded"
    /\ status_reply' = get_status(web_session)
    /\ UNCHANGED <<web_session, web_pc, upload_pc, web_methods, web_plan, web_fault,
                   web_i, web_results>>
    /\ WebFrame

\* A step of the thread from one position to another that leaves the loop
\* index and the local results alone.
Goes(from, to) ==
    /\ web_pc = from
    /\ web_pc' = to
    /\ UNCHANGED <<upload_pc, web_methods, web_plan, web_fault, status_reply>>
    /\ WebFrame

\* A call of the try block: it raises if it is the faulty one.
Calls(from, fault, to) ==
    /\ Goes(from, IF web_fault = fault THEN "except" ELSE to)
    /\ UNCHANGED <<web_session, web_i, web_results>>

\* processing_status[session_id][key] = value
Writes(from, key, value, to) ==
    /\ Goes(from, to)
    /\ web_session' = [web_session EXCEPT ![key] = value]
    /\ UNCHANGED <<web_i, web_results>>

InitializeStatus ==
    /\ Goes("init", "import")
    /\ web_session' = StartingStatus
    /\ UNCHANGED <<web_i, web_results>>

ImportModules ==
    /\ web_pc = "import"
    /\ Calls("import", "import", "analyzing")

SetAnalyzing ==
    /\ web_pc = "analyzing"
    /\ Writes("analyzing", "status", "analyzing", "analyzing_progress")

SetAnalyzingProgress ==
    /\ web_pc = "analyzing_progress"
    /\ Writes("analyzing_progress", "progress", 5, "detect")

DetectPdfType ==
    /\ web_pc = "detect"
    /\ Calls("detect", "detect", "loop")

\* for i, method in enumerate(methods): ... ['current_method'] = method
SetCurrentMethod ==
    /\ web_i < Len(web_methods)
    /\ Writes("loop", "current_method", Str(web_methods[web_i + 1]), "loop_progress")

SetLoopProgress ==
    /\ web_pc = "loop_progress"
    /\ Writes("loop_progress", "progress", loop_progress(web_i, Len(web_methods)),
             "extract")

\* The try statement of the loop: results[method] = result and
\* completed_methods.append(method), or the except clause's
\* processing_status[session_id]['results'][method] = {'error': str(e)}.
ExtractMethod ==
    /\ Goes("extract", "loop")
    /\ web_i' = web_i + 1
    /\ LET method == web_methods[web_i + 1]
           plan == web_plan[web_i + 1]
       IN  IF plan = "no_adapter"
           THEN /\ web_session' =
                       [web_session EXCEPT
                            !.results = dict_set(web_session.results, ErrorEntry(method))]
                /\ UNCHANGED web_results
           ELSE /\ web_results' =
                       dict_set(web_results, ResultEntry(method, plan = "returns"))
                /\ web_session' =
                       [web_session EXCEPT
                            !.completed_methods = Append(web_session.completed_methods,
                                                         method)]

SetComparing ==
    /\ web_i = Len(web_methods)
    /\ Writes("loop", "status", "comparing", "comparing_progress")

SetComparingProgress ==
    /\ web_pc = "comparing_progress"
    /\ Writes("comparing_progress", "progress", 85, "compare")

\* compare_extraction_results is called for more than one result only.
CompareResults ==
    /\ web_pc = "compare"
    /\ Calls("compare", IF Len(web_results) > 1 THEN "compare" ELSE "not_called",
             "exporting")

SetExporting ==
    /\ web_pc = "exporting"
    /\ Writes("exporting", "status", "exporting", "exporting_progress")

SetExportingProgress ==
    /\ web_pc = "exporting_progress"
    /\ Writes("exporting_progress", "progress", 95, "export")

ExportResults ==
    /\ web_pc = "export"
    /\ Calls("export", "export", "serialize")

SerializeResults ==
    /\ web_pc = "serialize"
    /\ Calls("serialize", "serialize", "finish")

\* processing_status[session_id].update({'status': 'completed', ...})
FinishSession ==
    /\ Goes("finish", "done")
    /\ web_session' = [web_session EXCEPT !.status = "completed",
                                          !.progress = 100,
                                          !.results = serializable_results(web_results)]
    /\ UNCHANGED <<web_i, web_results>>

\* except Exception as e
HandleError ==
    /\ Goes("except", "done")
    /\ web_session' = IF web_session # NotYet
                      THEN [web_session EXCEPT !.status = "error",
                                               !.error = Str(web_fault)]
                      ELSE RecreatedStatus(web_fault)
    /\ UNCHANGED <<web_i, web_results>>

NextWeb ==
    \/ StartThread
    \/ Respond
    \/ GetStatus
    \/ InitializeStatus
    \/ ImportModules
    \/ SetAnalyzing
    \/ SetAnalyzingProgress
    \/ DetectPdfType
    \/ SetCurrentMethod
    \/ SetLoopProgress
    \/ ExtractMethod
    \/ SetComparing
    \/ SetComparingProgress
    \/ CompareResults
    \/ SetExporting
    \/ SetExportingProgress
    \/ ExportResults
    \/ SerializeResults
    \/ FinishSession
    \/ HandleError

SpecWeb == InitWeb /\ [][NextWeb]_vars

-----------------------------------------------------------------------------
(* Claims on the web session.                                              *)

\* C28 (as stated): once /upload has responded with the session_id, no
\* /status/<session_id> request returns 'not_found', under every
\* interleaving of the request handlers and the thread of process_pdf_async.
C28_StatusNeverNotFound ==
    (upload_pc = "responded" /\ status_reply # NotYet)
        => status_reply.status # "not_found"


StatusOrder == <<"starting", "analyzing", "comparing", "exporting", "completed">>

\* The status that follows status a in the order, or a itself, or 'error'.
MovesForward(a, b) ==
    \/ b = a
    \/ b = "error"
    \/ \E k \in 1..(Len(StatusOrder) - 1) : StatusOrder[k] = a /\ StatusOrder[k + 1] = b

SessionStep ==
    web_session # NotYet =>
        /\ web_session' # NotYet
        /\ IF web_session.status \in {"completed", "error"}
           THEN web_session'.status = web_session.status
           ELSE MovesForward(web_session.status, web_session'.status)
        /\ web_session'.progress >= web_session.progress

\* C29: the status of a session goes starting, analyzing, comparing,
\* exporting, completed, one after the other, or from one of the first
\* four to error; completed and error are final; the progress never goes
\* down and is 100 exactly when the status is completed.
C29_StatusForwardProgressMonotone ==
    /\ [][SessionStep]_vars
    /\ [](web_session # NotYet =>
             (web_session.progress = 100 <=> web_session.status = "completed"))

\* A session is completed at progress 100 that the client saw exporting at
\* progress 95 before.
C29_Witness ==
    /\ web_session # NotYet
    /\ web_session.status = "completed"
    /\ web_session.progress = 100
    /\ status_reply # NotYet
    /\ status_reply.status = "exporting"
    /\ status_reply.progress = 95

\* C30 (as stated): when the session is completed, every method of the
\* request has an entry in the session's results, the data of its
\* extraction or an error record.
C30_EveryMethodInCompletedResults ==
    (web_session # NotYet /\ web_session.status = "completed") =>
        \A i \in 1..Len(web_methods) :
            \E j \in 1..Len(web_session.results) :
                web_session.results[j].method = web_methods[i]

====
